---- MODULE Spec2Model ----
(***************************************************************************)
(* Generation job pipeline (backend/app/services/video_queue.py), the      *)
(* generation client (flow_client.py) and the account pool                 *)
(* (multi_account_cookies.py) of the Flow/Veo proxy backend.               *)
(*                                                                         *)
(* Time is a clock in minutes.  Timestamps that are None in the code are   *)
(* NoTime.  Accounts are identified by their position in                   *)
(* MultiAccountCookieManager.accounts (the e-mail is the key of the health *)
(* map and of the cookie store; e-mails are distinct).                     *)
(*                                                                         *)
(* The state is explored under nine specifications over the same           *)
(* variables and actions:                                                  *)
(*   SpecPool   the account pool, its methods called in any order;         *)
(*   Spec       the worker, start/stop and the sync-status route around    *)
(*              the jobs of Jobs, with every outcome of the collaborators; *)
(*   SpecQueue  the submission of all Videos, every collaborator           *)
(*              succeeding;                                                *)
(*   SpecGen    concurrent generate_video calls on the shared FlowClient;  *)
(*   SpecSolo   generate_video calls one after the other, over time;       *)
(*   SpecStore  generate_video calls and the account refresher, each with  *)
(*              its own MultiAccountCookieManager on the one cookie file;  *)
(*   SpecRefresh  the token refresh loop and the cookie refresh loop of    *)
(*              the application's lifespan, on a clock in hours;           *)
(*   SpecLive   the worker left running (no stop) under weak fairness,     *)
(*              with jobs that end in each exception handler;              *)
(*   SpecShare  the worker and a /generate-video request on the one        *)
(*              FlowClient.                                                *)
(***************************************************************************)
EXTENDS Integers, Sequences, FiniteSets, TLC

\* ---------------------------------------------------------------- bounds
NumAccounts == 2        \* len(settings.google_emails)
MaxTime == 15           \* the clock stops advancing here
TickMinutes == 5        \* granularity of the clock
MaxFailures == 4        \* report_failure is not explored beyond this count
NumVideos == 3          \* Video rows created by the routing layer
NumJobs == 1            \* of which this many are followed through every upstream outcome
MaxTasks == 2           \* worker tasks that asyncio.create_task can hand out
NumRequests == 2        \* concurrent requests of the /generate-video route
video_queue_maxsize == 2    \* settings.video_queue_maxsize
video_status_max_polls == 2 \* settings.video_status_max_polls
MaxRefreshes == 2       \* browser logins of the account refresher that are followed
MaxHours == 48          \* the clock of the refresh loops stops advancing here

\* ------------------------------------------------------ program constants
FailureThreshold == 3   \* multi_account_cookies.py:212
CooldownMinutes == 10   \* multi_account_cookies.py:215
ExpiryBufferMinutes == 5 \* multi_account_cookies.py:143
MaxAccountAttempts == 3 \* flow_client.py:57
CookieRefreshIntervalHours == 21 \* cookie_refresher.py:21
EarlyMarginHours == 3   \* cookie_refresher.py:115
BackoffHours == 1       \* cookie_refresher.py:135
LoadAttempts == 5       \* video_queue.py:257

NoTime == 0 - 1
NoEmail == 0 - 1
Accounts == 0 .. (NumAccounts - 1)
Videos == 1 .. NumVideos
Jobs == 1 .. NumJobs
Tasks == 1 .. MaxTasks
NoTask == 1 - 1
NoVideo == 1 - 1
\* the callers of FlowClient.generate_video: the worker tasks and the
\* requests of the /generate-video route
Requests == (MaxTasks + 1) .. (MaxTasks + NumRequests)
Callers == Tasks \cup Requests

VARIABLES
    now,                    \* datetime.now(timezone.utc), in minutes
    current_account_index,  \* MultiAccountCookieManager.current_account_index
    account_health,         \* MultiAccountCookieManager.account_health
    cookies_data,           \* MultiAccountCookieManager.cookies_data["accounts"]
    call,                   \* the most recent direct call of a pool method and its result
    videos,                 \* the committed Video rows
    queue,                  \* VideoQueue._queue
    putters,                \* enqueue() calls suspended in Queue.put
    stop_event,             \* VideoQueue._stop_event
    worker_task,            \* VideoQueue._worker_task
    worker,                 \* the worker tasks: position and locals of _worker_loop
    gen,                    \* the running FlowClient.generate_video calls, per caller
    sync,                   \* the running sync_video_status request
    outcome,                \* per Video: how the worker's processing of its job ended
    log,                    \* the order in which jobs entered and left the queue
    cookie_file,            \* the jars in settings.multi_account_cookie_file
    refresher,              \* the MultiAccountCookieManager of MultiAccountRefresher
    hour,                   \* datetime.now(timezone.utc) of the refresh loops, in hours
    flow_cookie_expiry,     \* the earliest expiry in settings.flow_cookie_file
    cookie_loop,            \* CookieRefresher._refresh_loop: position and timer
    token_loop              \* lifespan.refresh_loop: position and locals

poolVars == <<now, current_account_index, account_health, cookies_data, cookie_file>>
loopVars == <<hour, flow_cookie_expiry, cookie_loop, token_loop>>
queueVars == <<videos, queue, putters, stop_event, worker_task, worker, gen, sync, outcome, log>>
vars == <<now, current_account_index, account_health, cookies_data, call,
          videos, queue, putters, stop_event, worker_task, worker, gen, sync, outcome, log,
          cookie_file, refresher, hour, flow_cookie_expiry, cookie_loop, token_loop>>

\* ------------------------------------------------------------ account pool
\* The five fields of a health record, and two history fields that the code
\* does not have: reported is the number of failures reported for the
\* account since success was last reported for it, forgiven the number of
\* those that rotate_to_next_account has erased from the count.
InitialHealth ==
    [failures |-> 0, last_failure |-> NoTime, last_success |-> NoTime,
     is_healthy |-> TRUE, cooldown_until |-> NoTime,
     reported |-> 0, forgiven |-> 0]

_initialize_account_health == [a \in Accounts |-> InitialHealth]

NoJar == [present |-> FALSE, authorization |-> FALSE, expires_at |-> NoTime,
          last_refreshed |-> NoTime]

\* the stored jar of one account: cookies (of which only the overloaded
\* "authorization" entry is tracked), expires_at and last_refreshed
Jar(auth, expires_at, t) ==
    [present |-> TRUE, authorization |-> auth, expires_at |-> expires_at,
     last_refreshed |-> t]

get_current_account(idx) == idx

\* variant of _are_cookies_expired: no safety buffer before the expiry
_are_cookies_expired_unbuffered(jar, t) ==
    IF jar.expires_at = NoTime THEN TRUE
    ELSE t >= jar.expires_at

_are_cookies_expired(jar, t) ==
    IF jar.expires_at = NoTime THEN TRUE
    ELSE t >= jar.expires_at - ExpiryBufferMinutes

get_current_cookies(idx, cd, t) ==
    LET jar == cd[get_current_account(idx)] IN
    IF ~jar.present THEN NoJar
    ELSE IF _are_cookies_expired(jar, t) THEN NoJar
    ELSE jar

\* variant of _mark_failure: the cooldown starts one failure late
_mark_failure_late(h, email, t) ==
    IF email \notin DOMAIN h THEN h
    ELSE LET n == h[email].failures + 1 IN
         IF n > FailureThreshold
         THEN [h EXCEPT ![email].failures = n,
                        ![email].last_failure = t,
                        ![email].is_healthy = FALSE,
                        ![email].cooldown_until = t + CooldownMinutes,
                        ![email].reported = @ + 1]
         ELSE [h EXCEPT ![email].failures = n,
                        ![email].last_failure = t,
                        ![email].reported = @ + 1]

_mark_failure(h, email, t) ==
    IF email \notin DOMAIN h THEN h
    ELSE LET n == h[email].failures + 1 IN
         IF n >= FailureThreshold
         THEN [h EXCEPT ![email].failures = n,
                        ![email].last_failure = t,
                        ![email].is_healthy = FALSE,
                        ![email].cooldown_until = t + CooldownMinutes,
                        ![email].reported = @ + 1]
         ELSE [h EXCEPT ![email].failures = n,
                        ![email].last_failure = t,
                        ![email].reported = @ + 1]

mark_account_failure(idx, h, email, t) ==
    _mark_failure(h, IF email = NoEmail THEN get_current_account(idx) ELSE email, t)

\* variant of _mark_success: a success takes one failure off the count
_mark_success_forgiving(h, email, t) ==
    IF email \notin DOMAIN h THEN h
    ELSE [h EXCEPT ![email].last_success = t,
                   ![email].failures = IF @ > 0 THEN @ - 1 ELSE 0,
                   ![email].is_healthy = TRUE,
                   ![email].cooldown_until = NoTime,
                   ![email].reported = 0,
                   ![email].forgiven = 0]

_mark_success(h, email, t) ==
    IF email \notin DOMAIN h THEN h
    ELSE [h EXCEPT ![email].last_success = t,
                   ![email].failures = 0,
                   ![email].is_healthy = TRUE,
                   ![email].cooldown_until = NoTime,
                   ![email].reported = 0,
                   ![email].forgiven = 0]

\* variant of ResetHealth: the expired cooldown is cleared, the account is
\* not made healthy again
ResetCooldownOnly(hrec) == [hrec EXCEPT !.cooldown_until = NoTime]

\* variant of ResetHealth: the failure count survives the reset
ResetHealthKeepingFailures(hrec) ==
    [hrec EXCEPT !.cooldown_until = NoTime, !.is_healthy = TRUE]

\* the health record of an account whose cooldown has expired, as reset by
\* rotate_to_next_account when it visits the account
ResetHealth(hrec) ==
    [hrec EXCEPT !.cooldown_until = NoTime, !.failures = 0, !.is_healthy = TRUE,
                 !.forgiven = @ + hrec.failures]

\* what rotate_to_next_account leaves in current_account_index when no
\* account was found
RestoreIndex(original_index, idx) == original_index

\* variant of rotate_max_attempts: the loop stops one account short
rotate_one_short == NumAccounts - 1

\* the number of accounts one call of rotate_to_next_account looks at
rotate_max_attempts == NumAccounts

\* variant of rotate_in_cooldown: the account is still skipped at the very
\* minute its cooldown ends
rotate_in_cooldown_inclusive(hrec, t) ==
    hrec.cooldown_until # NoTime /\ t <= hrec.cooldown_until

\* the test with which rotate_to_next_account skips an account
rotate_in_cooldown(hrec, t) ==
    hrec.cooldown_until # NoTime /\ t < hrec.cooldown_until

RECURSIVE RotateLoop(_, _, _, _, _, _)
RotateLoop(idx, h, attempts, visited, original_index, t) ==
    IF attempts >= rotate_max_attempts
    THEN [ret |-> FALSE, index |-> RestoreIndex(original_index, idx),
          health |-> h, visited |-> visited]
    ELSE LET i == (idx + 1) % NumAccounts
             seen == Append(visited, i)
         IN  IF rotate_in_cooldown(h[i], t)
             THEN RotateLoop(i, h, attempts + 1, seen, original_index, t)
             ELSE LET h2 == IF h[i].cooldown_until # NoTime
                            THEN [h EXCEPT ![i] = ResetHealth(h[i])]
                            ELSE h
                  IN  IF h2[i].is_healthy
                      THEN [ret |-> TRUE, index |-> i, health |-> h2, visited |-> seen]
                      ELSE RotateLoop(i, h2, attempts + 1, seen, original_index, t)

rotate_to_next_account(idx, h, t) == RotateLoop(idx, h, 0, <<>>, idx, t)

\* update_cookies: overwrite the jar, then _mark_success(email)
update_cookies_jar(cd, email, auth, expires_at, t) ==
    [cd EXCEPT ![email] = Jar(auth, expires_at, t)]

\* ------------------------------------------------------- videos and jobs
PENDING == "pending"
PROCESSING == "processing"
COMPLETED == "completed"
FAILED == "failed"
NoStatus == "none"
NoReason == "null"

\* a Video row: row is "none" before the INSERT, "flushed" once the creating
\* request has flushed it in its open transaction, "committed" afterwards
NoRow == [row |-> "none", status |-> NoStatus, failure_reason |-> NoReason,
          operation_name |-> FALSE]

DeadWorker == [pc |-> "dead", job |-> NoVideo, loads |-> 0, attempt |-> 0,
               sleeps |-> 0, checks |-> 0, updates |-> 0, mem_status |-> NoStatus,
               mem_reason |-> NoReason, reason |-> NoReason, check_acct |-> NoEmail]

\* the body of a generation response, or the dict generate_video returns:
\* present is FALSE for an empty body ({} for the returned dict), name is
\* operations[0].operation.name ("" when there is none)
NoBody == [present |-> FALSE, name |-> ""]

\* error is the exception that generate_video raises (last_error), response
\* the dict it returns
IdleGen == [pc |-> "idle", attempt |-> 0, acct |-> NoEmail, tried |-> <<>>,
            error |-> NoReason, response |-> NoBody]

\* history: the Videos in the order their enqueue() returned (put) and in
\* the order the worker received them (got), and those whose enqueue() was
\* suspended (waited)
NoLog == [put |-> <<>>, got |-> <<>>, waited |-> {}]

NoSync == [video |-> NoVideo, status |-> NoStatus, failure_reason |-> NoReason]

\* ------------------------------------------------ upstream status parsing
_STATUS_MAP ==
    [tok \in {"MEDIA_GENERATION_STATUS_PENDING", "MEDIA_GENERATION_STATUS_CREATED",
              "MEDIA_GENERATION_STATUS_SCHEDULED", "STATE_PENDING", "STATUS_PENDING",
              "MEDIA_GENERATION_STATUS_RUNNING", "MEDIA_GENERATION_STATUS_PROCESSING",
              "STATE_RUNNING", "STATE_PROCESSING", "STATUS_RUNNING",
              "MEDIA_GENERATION_STATUS_COMPLETED", "STATE_SUCCEEDED", "STATE_COMPLETED",
              "STATUS_COMPLETE", "STATUS_COMPLETED",
              "MEDIA_GENERATION_STATUS_FAILED", "STATE_FAILED", "STATUS_FAILED"} |->
        IF tok \in {"MEDIA_GENERATION_STATUS_PENDING", "MEDIA_GENERATION_STATUS_CREATED",
                    "MEDIA_GENERATION_STATUS_SCHEDULED", "STATE_PENDING", "STATUS_PENDING"}
        THEN PENDING
        ELSE IF tok \in {"MEDIA_GENERATION_STATUS_RUNNING",
                         "MEDIA_GENERATION_STATUS_PROCESSING", "STATE_RUNNING",
                         "STATE_PROCESSING", "STATUS_RUNNING"}
        THEN PROCESSING
        ELSE IF tok \in {"MEDIA_GENERATION_STATUS_COMPLETED", "STATE_SUCCEEDED",
                         "STATE_COMPLETED", "STATUS_COMPLETE", "STATUS_COMPLETED"}
        THEN COMPLETED
        ELSE FAILED]

\* a status response (operations[0]): its status token ("" when there is
\* none), operation.done, the message of its error object (NoReason when
\* there is none) and whether it carries a video URL
Response(status, done, message, url) ==
    [status |-> status, done |-> done, message |-> message, video_url |-> url]

_extract_status(resp) ==
    IF resp.status \in DOMAIN _STATUS_MAP THEN _STATUS_MAP[resp.status]
    ELSE IF resp.done THEN COMPLETED
    ELSE NoStatus

_extract_failure(resp) == resp.message

\* FlowStatusUpdate
parse_flow_status(resp) ==
    [status |-> _extract_status(resp), failure_reason |-> _extract_failure(resp),
     video_url |-> resp.video_url]

\* ---------------------------------------------------- failure reasons
TimedOutReason == "Video generation timed out"
InitiateFailedReason == "Failed to initiate video generation with Flow API"
MissingOperationReason == "Flow API response missing operation name"
PollFailedReason == "Failed to poll video status after max attempts"
NonJsonReason == "Flow API returned a non-JSON payload"
TokenFetchReason == "Failed to fetch access token"
StorageReason == "Failed to store video asset"
UnexpectedStorageReason == "Unexpected storage error"
UnexpectedReason == "Unexpected error"
UpstreamMessage == "quota exceeded"
GenerationFailed(m) ==
    IF m = UpstreamMessage THEN "Video generation failed: quota exceeded"
    ELSE "Video generation failed: (message)"

\* ------------------------------------------------- credential resolver
\* FlowClient._get_credentials for the current account.  legacy is what
\* load_cookie_credentials does ("ok" or the exception it raises), session
\* what TokenRefresher.fetch_session does: [kind |-> "token", expires |-> t]
\* or [kind |-> "expired" | "error"].
_get_credentials(idx, cd, h, t, legacy, session) ==
    LET jar == get_current_cookies(idx, cd, t)
        account == get_current_account(idx)
    IN  IF ~jar.present
        THEN [result |-> legacy, cookies_data |-> cd, health |-> h, saved |-> FALSE]
        ELSE IF jar.authorization
        THEN [result |-> "ok", cookies_data |-> cd, health |-> h, saved |-> FALSE]
        ELSE IF session.kind = "token"
        THEN [result |-> "ok",
              cookies_data |-> update_cookies_jar(cd, account, TRUE, session.expires, t),
              health |-> _mark_success(h, account, t),
              saved |-> TRUE]
        ELSE [result |-> "RuntimeError", cookies_data |-> cd, health |-> h, saved |-> FALSE]

LegacyOutcomes == {"ok", "ValueError"}
SessionOutcomes(t) ==
    {[kind |-> "token", expires |-> t + 2 * ExpiryBufferMinutes],
     [kind |-> "expired", expires |-> NoTime]}

\* ------------------------------------------------------ the refresh loops
\* CookieRefresher._refresh_loop: pc is "top" (the while test), "wait_long"
\* (the wait of COOKIE_REFRESH_INTERVAL), "wait_backoff" (the wait after a
\* failed scheduled refresh) or "stopped"; deadline is the hour at which the
\* timer of the wait runs out.  A history field: failed_scheduled says that
\* the last scheduled refresh failed and no refresh has been attempted since.
StoppedCookieLoop ==
    [pc |-> "stopped", deadline |-> NoTime, failed_scheduled |-> FALSE]

\* lifespan.refresh_loop: pc is "run" (the body of the while), "wait" (the
\* wait of delay seconds) or "stopped"; delay and
\* consecutive_cookie_failures are the locals of the loop.  Two history
\* fields: answer is what the session endpoint holds for the stored cookies
\* in the last iteration, refreshed whether that iteration called
\* cookie_refresher.refresh_now().
StoppedTokenLoop ==
    [pc |-> "stopped", delay |-> 0, consecutive_cookie_failures |-> 0,
     answer |-> "none", refreshed |-> FALSE]

NoCall == [op |-> "none", ret |-> FALSE, updated |-> NoEmail]

\* a jar found in the cookie file when the manager is built (_load_cookies):
\* none, or the cookies of a browser login, which hold no bearer token yet
InitialJars == {NoJar, Jar(FALSE, 2 * CooldownMinutes, 0)}

InitFiles(jars, expiry) ==
    /\ now = 0
    /\ current_account_index = 0
    /\ account_health = _initialize_account_health
    /\ cookies_data = jars
    /\ call = NoCall
    /\ videos = [v \in Videos |-> NoRow]
    /\ queue = <<>>
    /\ putters = {}
    /\ stop_event = FALSE
    /\ worker_task = NoTask
    /\ worker = [t \in Tasks |-> DeadWorker]
    /\ gen = [c \in Callers |-> IdleGen]
    /\ sync = NoSync
    /\ outcome = [v \in Videos |-> "none"]
    /\ log = NoLog
    /\ cookie_file = jars
    /\ refresher = [cookies_data |-> jars, account_health |-> _initialize_account_health,
                    refreshes |-> 0]
    /\ hour = 0
    /\ flow_cookie_expiry = expiry
    /\ cookie_loop = StoppedCookieLoop
    /\ token_loop = StoppedTokenLoop

\* the legacy cookie file holds no expiry that can be read
InitWith(jars) == InitFiles(jars, NoTime)

\* the backend started without a cookie file
Init == InitWith([a \in Accounts |-> NoJar])

\* the backend started with any cookie file
InitStore == \E jars \in [Accounts -> InitialJars] : InitWith(jars)

\* ------------------------------------------------ the clock
Tick ==
    /\ now + TickMinutes <= MaxTime
    /\ now' = now + TickMinutes
    /\ UNCHANGED <<current_account_index, account_health, cookies_data, cookie_file, call>>
    /\ UNCHANGED <<queueVars, refresher, loopVars>>

\* ------------------------------------------------ direct calls of the pool
CallMarkAccountFailure(email) ==
    LET target == IF email = NoEmail THEN get_current_account(current_account_index)
                  ELSE email
    IN  /\ account_health[target].failures < MaxFailures
        /\ account_health' = mark_account_failure(current_account_index, account_health, email, now)
        /\ call' = [op |-> "mark_account_failure", ret |-> TRUE, updated |-> NoEmail]
        /\ UNCHANGED <<now, current_account_index, cookies_data, cookie_file>>
        /\ UNCHANGED <<queueVars, refresher, loopVars>>

CallUpdateCookies(email, auth, expires_at) ==
    /\ cookies_data' = update_cookies_jar(cookies_data, email, auth, expires_at, now)
    /\ cookie_file' = cookies_data'
    /\ account_health' = _mark_success(account_health, email, now)
    /\ call' = [op |-> "update_cookies", ret |-> TRUE, updated |-> email]
    /\ UNCHANGED <<now, current_account_index>>
    /\ UNCHANGED <<queueVars, refresher, loopVars>>

\* update_cookies called once more with the arguments of the call before
CallUpdateCookiesAgain ==
    /\ call.op = "update_cookies"
    /\ CallUpdateCookies(call.updated, cookies_data[call.updated].authorization,
                         cookies_data[call.updated].expires_at)

CallRotate ==
    LET r == rotate_to_next_account(current_account_index, account_health, now) IN
    /\ current_account_index' = r.index
    /\ account_health' = r.health
    /\ call' = [op |-> "rotate_to_next_account", ret |-> r.ret, updated |-> NoEmail]
    /\ UNCHANGED <<now, cookies_data, cookie_file>>
    /\ UNCHANGED <<queueVars, refresher, loopVars>>

\* ------------------------------------------------ VideoQueue: start / stop
\* asyncio.create_task: the new task is the first one that is not running
NewTask == CHOOSE t \in Tasks : worker[t].pc = "dead" /\ \A u \in Tasks : u < t => worker[u].pc # "dead"

\* variant of start_guard: start() creates a worker whenever it is called
start_unguarded == TRUE

\* VideoQueue.start creates a worker only when there is none
start_guard == worker_task = NoTask

start ==
    /\ start_guard
    /\ \E t \in Tasks : worker[t].pc = "dead"
    /\ stop_event' = FALSE
    /\ worker_task' = NewTask
    /\ worker' = [worker EXCEPT ![NewTask] = [DeadWorker EXCEPT !.pc = "get"]]
    /\ UNCHANGED <<videos, queue, putters, gen, sync, outcome, call, log, refresher, loopVars>>
    /\ UNCHANGED poolVars

\* VideoQueue.stop: set the event, cancel the worker task and await its end.
\* The CancelledError is raised at the await the worker is suspended in; no
\* handler of _process_job or generate_video catches it (they catch
\* Exception), so the job in flight is abandoned as it is.
stop ==
    /\ stop_event' = TRUE
    /\ worker_task' = NoTask
    /\ IF worker_task # NoTask
       THEN /\ worker' = [worker EXCEPT ![worker_task] = DeadWorker]
            /\ gen' = [gen EXCEPT ![worker_task] = IdleGen]
            /\ outcome' = IF worker[worker_task].job # NoVideo
                           THEN [outcome EXCEPT ![worker[worker_task].job] =
                                    IF worker[worker_task].pc = "load"
                                    THEN "cancelled before load" ELSE "cancelled"]
                           ELSE outcome
       ELSE UNCHANGED <<worker, gen, outcome>>
    /\ UNCHANGED <<videos, queue, putters, sync, call, log, refresher, loopVars>>
    /\ UNCHANGED poolVars

\* ------------------------------------------------ job submission
\* _create_and_enqueue_video: INSERT and flush the row, then enqueue; the
\* request's transaction is committed by get_session after the route returns
\* variant of QueueFull: the queue takes one job more than maxsize
QueueFullLate(q) == Len(q) > video_queue_maxsize

\* asyncio.Queue.full() for the queue built with maxsize video_queue_maxsize
QueueFull(q) == Len(q) >= video_queue_maxsize

create_video(v) ==
    /\ videos[v].row = "none"
    /\ videos' = [videos EXCEPT ![v] = [NoRow EXCEPT !.row = "flushed", !.status = PENDING]]
    /\ IF QueueFull(queue)
       THEN /\ putters' = putters \cup {v}
            /\ log' = [log EXCEPT !.waited = @ \cup {v}]
            /\ UNCHANGED queue
       ELSE /\ queue' = Append(queue, v)
            /\ log' = [log EXCEPT !.put = Append(@, v)]
            /\ UNCHANGED putters
    /\ UNCHANGED <<stop_event, worker_task, worker, gen, sync, outcome, call, refresher, loopVars>>
    /\ UNCHANGED poolVars

\* Queue.put resumes once the queue has room
enqueue_resume(v) ==
    /\ v \in putters
    /\ ~QueueFull(queue)
    /\ queue' = Append(queue, v)
    /\ putters' = putters \ {v}
    /\ log' = [log EXCEPT !.put = Append(@, v)]
    /\ UNCHANGED <<videos, stop_event, worker_task, worker, gen, sync, outcome, call, refresher, loopVars>>
    /\ UNCHANGED poolVars

\* get_session: commit after the route has returned
commit_video(v) ==
    /\ videos[v].row = "flushed"
    /\ v \notin putters
    /\ videos' = [videos EXCEPT ![v].row = "committed"]
    /\ UNCHANGED <<queue, putters, stop_event, worker_task, worker, gen, sync, outcome, call, log, refresher, loopVars>>
    /\ UNCHANGED poolVars

\* ------------------------------------------------ the worker loop
\* _worker_loop: wait_for(queue.get()) returns a job
_worker_loop_get(t) ==
    /\ worker[t].pc = "get"
    /\ ~stop_event
    /\ queue # <<>>
    /\ queue' = Tail(queue)
    /\ worker' = [worker EXCEPT ![t] = [DeadWorker EXCEPT !.pc = "load", !.job = Head(queue)]]
    /\ log' = [log EXCEPT !.got = Append(@, Head(queue))]
    /\ UNCHANGED <<videos, putters, stop_event, worker_task, gen, sync, outcome, call, refresher, loopVars>>
    /\ UNCHANGED poolVars

\* variant of LoadExhausted: _load_video makes one attempt more
LoadExhaustedLate(loads) == loads + 1 > LoadAttempts

\* `for _ in range(5)` of _load_video is over after the miss that follows
\* loads earlier misses
LoadExhausted(loads) == loads + 1 >= LoadAttempts

\* _load_video: one SELECT that does not see the row (it is not committed)
_load_video_miss(t) ==
    LET w == worker[t] IN
    /\ w.pc = "load"
    /\ videos[w.job].row # "committed"
    /\ worker' = [worker EXCEPT ![t] =
                    IF LoadExhausted(w.loads)
                    THEN [DeadWorker EXCEPT !.pc = "get"]     \* job dropped, task_done
                    ELSE [w EXCEPT !.loads = w.loads + 1]]
    /\ outcome' = IF LoadExhausted(w.loads)
                   THEN [outcome EXCEPT ![w.job] = "dropped"] ELSE outcome
    /\ UNCHANGED <<videos, queue, putters, stop_event, worker_task, gen, sync, call, log, refresher, loopVars>>
    /\ UNCHANGED poolVars

\* _load_video finds the row; _ensure_profile
_load_video_hit(t) ==
    LET w == worker[t] IN
    /\ w.pc = "load"
    /\ videos[w.job].row = "committed"
    /\ worker' = [worker EXCEPT ![t] = [w EXCEPT !.pc = "begin",
                                               !.mem_status = videos[w.job].status,
                                               !.mem_reason = videos[w.job].failure_reason]]
    /\ UNCHANGED <<videos, queue, putters, stop_event, worker_task, gen, sync, outcome, call, log, refresher, loopVars>>
    /\ UNCHANGED poolVars

\* session.commit(): the UPDATE carries the attributes whose value differs
\* from the one the session last loaded or wrote
Commit(row, old_status, old_reason, new_status, new_reason) ==
    [row EXCEPT !.status = IF new_status # old_status THEN new_status ELSE @,
                !.failure_reason = IF new_reason # old_reason THEN new_reason ELSE @]

\* variant of BeginStatus: _begin_generation leaves the status as it is
BeginStatusPending == PENDING

\* the status _begin_generation assigns
BeginStatus == PROCESSING

\* _begin_generation; commit_ok is whether session.commit() returns
_begin_generation(t, commit_ok) ==
    LET w == worker[t] IN
    /\ w.pc = "begin"
    /\ IF commit_ok
       THEN /\ videos' = [videos EXCEPT ![w.job] =
                            Commit(@, w.mem_status, w.mem_reason, BeginStatus, NoReason)]
            /\ worker' = [worker EXCEPT ![t] = [w EXCEPT !.pc = "generate",
                                                       !.mem_status = BeginStatus,
                                                       !.mem_reason = NoReason]]
            /\ gen' = [gen EXCEPT ![t] = [IdleGen EXCEPT !.pc = "creds"]]
       ELSE \* the exception is not a RuntimeError: rollback, then _mark_failed
            /\ worker' = [worker EXCEPT ![t] = [w EXCEPT !.pc = "mark_failed",
                                                       !.reason = UnexpectedReason]]
            /\ UNCHANGED <<videos, gen>>
    /\ UNCHANGED <<queue, putters, stop_event, worker_task, sync, outcome, call, log, refresher, loopVars>>
    /\ UNCHANGED poolVars

\* ------------------------------------------------ FlowClient.generate_video
Min(a, b) == IF a < b THEN a ELSE b

max_attempts == Min(NumAccounts, MaxAccountAttempts)

\* the account generate_video reports a failed POST for: mark_account_failure()
\* is called without an e-mail, so it is the account current at that moment
FailedAccount(idx, acct) == NoEmail

\* generate_video after _post raised httpx.HTTPStatusError on attempt
\* g.attempt: [raise, gen, index, health]
generate_video_http_error(g, idx, h, t) ==
    LET h1 == mark_account_failure(idx, h, FailedAccount(idx, g.acct), t)
        r == rotate_to_next_account(idx, h1, t)
    IN  IF g.attempt < max_attempts - 1
        THEN IF r.ret
             THEN [raise |-> FALSE, index |-> r.index, health |-> r.health,
                   gen |-> [g EXCEPT !.pc = "creds", !.attempt = g.attempt + 1]]
             ELSE [raise |-> TRUE, index |-> r.index, health |-> r.health, gen |-> IdleGen]
        ELSE [raise |-> TRUE, index |-> idx, health |-> h1, gen |-> IdleGen]

\* variant of generate_video_exception: any exception is handled as an HTTP
\* status error is
generate_video_exception_rotating(g, idx, h, t) == generate_video_http_error(g, idx, h, t)

\* generate_video after _get_credentials or _post raised an exception that
\* is not httpx.HTTPStatusError on attempt g.attempt: the loop is left and
\* the exception raised
generate_video_exception(g, idx, h, t) ==
    [raise |-> TRUE, index |-> idx, health |-> h, gen |-> IdleGen]

\* generate_video after _post returned: the account pool as the success
\* branch leaves it (the branch logs the account and builds the response)
generate_video_success(idx, h, t) == h

\* the last path segment of a header value, value.rsplit("/", 1)[-1]; a
\* value is the sequence of its segments between the "/"
LastSegment(value) == value[Len(value)]

\* variant of _extract_operation_from_headers: the Location header is looked
\* at before the request-params header
_extract_operation_from_headers_location_first(headers) ==
    LET named == {i \in 1 .. Len(headers.explicit) : headers.explicit[i] # ""} IN
    IF named # {}
    THEN headers.explicit[CHOOSE i \in named : \A j \in named : i <= j]
    ELSE IF Len(headers.location) >= 2
    THEN LastSegment(headers.location)
    ELSE IF headers.params # <<>> /\ headers.params # <<"">>
    THEN LastSegment(headers.params)
    ELSE ""

\* _extract_operation_from_headers: explicit holds the values of
\* x-goog-operation-name, x-operation-name and x-flow-operation-name ("" when
\* absent), params the segments of the name= field of x-goog-request-params
\* (<<>> when there is no such field, <<"">> when it is empty), location the
\* segments of the Location header (<<>> when absent); "" stands for None
_extract_operation_from_headers(headers) ==
    LET named == {i \in 1 .. Len(headers.explicit) : headers.explicit[i] # ""} IN
    IF named # {}
    THEN headers.explicit[CHOOSE i \in named : \A j \in named : i <= j]
    ELSE IF headers.params # <<>> /\ headers.params # <<"">>
    THEN LastSegment(headers.params)
    ELSE IF Len(headers.location) >= 2
    THEN LastSegment(headers.location)
    ELSE ""

\* what generate_video returns for the body and the headers _post returned:
\* the body when there is one, else the entry synthesized from the headers,
\* else {}
generate_video_response(body, headers) ==
    IF body.present THEN [pc |-> "named", response |-> body]
    ELSE LET operation_name == _extract_operation_from_headers(headers) IN
         IF operation_name = "" THEN [pc |-> "empty", response |-> NoBody]
         ELSE [pc |-> "header", response |-> [present |-> TRUE, name |-> operation_name]]

NoHeaders == [explicit |-> <<"", "", "">>, params |-> <<>>, location |-> <<>>]

\* the generation responses the upstream is taken to send
PostBodies == {NoBody, [present |-> TRUE, name |-> "A"], [present |-> TRUE, name |-> ""]}
PostHeaders ==
    [explicit : {<<"", "", "">>, <<"E1", "", "">>, <<"", "E2", "E3">>},
     params : {<<>>, <<"">>, <<"operations", "P">>},
     location : {<<>>, <<"L">>, <<"v1", "L">>}]
AllHeaders ==
    [explicit |-> <<"", "E2", "E3">>, params |-> <<"operations", "P">>,
     location |-> <<"v1", "L">>]
PostResponses ==
    [kind : {"response"}, body : {NoBody}, headers : PostHeaders]
    \cup [kind : {"response"}, body : PostBodies \ {NoBody}, headers : {NoHeaders, AllHeaders}]

\* the response of a generation that went well
NamedResponse ==
    [kind |-> "response", body |-> [present |-> TRUE, name |-> "A"], headers |-> NoHeaders]

\* the POST raised httpx.HTTPStatusError, or another exception
HttpError == [kind |-> "http_error", body |-> NoBody, headers |-> NoHeaders]
OtherError == [kind |-> "other_error", body |-> NoBody, headers |-> NoHeaders]

\* the upstream outcomes of the generation POST
PostOutcomes == PostResponses \cup {HttpError, OtherError}

\* one attempt, first half: _get_credentials, then the POST is issued
generate_video_creds(c, legacy, session) ==
    LET g == gen[c]
        r == _get_credentials(current_account_index, cookies_data, account_health, now,
                              legacy, session)
        x == generate_video_exception(g, current_account_index, r.health, now)
    IN  /\ g.pc = "creds"
        /\ cookies_data' = r.cookies_data
        /\ cookie_file' = IF r.saved THEN r.cookies_data ELSE cookie_file
        /\ UNCHANGED now
        /\ IF r.result = "ok"
           THEN /\ gen' = [gen EXCEPT ![c] = [g EXCEPT !.pc = "post",
                                                       !.acct = current_account_index,
                                                       !.tried = Append(g.tried, current_account_index)]]
                /\ account_health' = r.health
                /\ UNCHANGED current_account_index
           ELSE /\ gen' = [gen EXCEPT ![c] = IF x.raise
                                             THEN [g EXCEPT !.pc = "raised", !.error = r.result]
                                             ELSE x.gen]
                /\ account_health' = x.health
                /\ current_account_index' = x.index

\* one attempt, second half: the POST returns or raises
generate_video_post(c, result) ==
    LET g == gen[c]
        e == generate_video_http_error(g, current_account_index, account_health, now)
        x == generate_video_exception(g, current_account_index, account_health, now)
    IN  /\ g.pc = "post"
        /\ UNCHANGED <<now, cookies_data, cookie_file>>
        /\ CASE result.kind = "http_error" ->
                  /\ account_health[current_account_index].failures < MaxFailures
                  /\ current_account_index' = e.index
                  /\ account_health' = e.health
                  /\ gen' = [gen EXCEPT ![c] = IF e.raise
                                               THEN [g EXCEPT !.pc = "raised",
                                                              !.error = "HTTPStatusError"]
                                               ELSE e.gen]
             [] result.kind = "other_error" ->
                  /\ current_account_index' = x.index
                  /\ account_health' = x.health
                  /\ gen' = [gen EXCEPT ![c] = IF x.raise
                                               THEN [g EXCEPT !.pc = "raised",
                                                              !.error = "Exception"]
                                               ELSE x.gen]
             [] OTHER ->
                  /\ account_health' = generate_video_success(current_account_index,
                                                              account_health, now)
                  /\ gen' = [gen EXCEPT ![c] =
                        [g EXCEPT !.pc = generate_video_response(result.body,
                                                                 result.headers).pc,
                                  !.response = generate_video_response(result.body,
                                                                       result.headers).response]]
                  /\ UNCHANGED current_account_index

\* ------------------------------------------------ the /generate-video route
route_generate_start(c) ==
    /\ gen[c].pc = "idle"
    /\ gen' = [gen EXCEPT ![c] = [IdleGen EXCEPT !.pc = "creds"]]
    /\ UNCHANGED <<videos, queue, putters, stop_event, worker_task, worker, sync, outcome, call, log, refresher, loopVars>>
    /\ UNCHANGED poolVars

route_generate_creds(c, legacy, session) ==
    /\ generate_video_creds(c, legacy, session)
    /\ UNCHANGED <<videos, queue, putters, stop_event, worker_task, worker, sync, outcome, call, log, refresher, loopVars>>

route_generate_post(c, result) ==
    /\ generate_video_post(c, result)
    /\ UNCHANGED <<videos, queue, putters, stop_event, worker_task, worker, sync, outcome, call, log, refresher, loopVars>>

\* the route answers (operation name, or an HTTP error for a raised exception)
route_generate_return(c) ==
    /\ gen[c].pc \in {"raised", "named", "header", "empty"}
    /\ gen' = [gen EXCEPT ![c] = IdleGen]
    /\ UNCHANGED <<videos, queue, putters, stop_event, worker_task, worker, sync, outcome, call, log, refresher, loopVars>>
    /\ UNCHANGED poolVars

\* ------------------------------------------------ _run_generation
_run_generation_creds(t, legacy, session) ==
    /\ worker[t].pc = "generate"
    /\ generate_video_creds(t, legacy, session)
    /\ UNCHANGED <<videos, queue, putters, stop_event, worker_task, worker, sync, outcome, call, log, refresher, loopVars>>

_run_generation_post(t, result) ==
    /\ worker[t].pc = "generate"
    /\ generate_video_post(t, result)
    /\ UNCHANGED <<videos, queue, putters, stop_event, worker_task, worker, sync, outcome, call, log, refresher, loopVars>>

\* _extract_operation_name on what generate_video returned: a body with
\* operations[0].operation.name, the entry synthesized from a header, or {};
\* "" stands for None
_extract_operation_name(response) == IF response.present THEN response.name ELSE ""

\* generate_video has returned or raised: store the operation name and
\* commit, or raise RuntimeError
_run_generation_return(t) ==
    LET w == worker[t] IN
    /\ w.pc = "generate"
    /\ gen[t].pc \in {"raised", "named", "header", "empty"}
    /\ gen' = [gen EXCEPT ![t] = [gen[t] EXCEPT !.pc = "idle", !.response = NoBody]]
    /\ IF gen[t].pc = "raised"
       THEN /\ worker' = [worker EXCEPT ![t] = [w EXCEPT !.pc = "mark_failed",
                                                       !.reason = InitiateFailedReason]]
            /\ UNCHANGED videos
       ELSE IF _extract_operation_name(gen[t].response) = ""
       THEN /\ worker' = [worker EXCEPT ![t] = [w EXCEPT !.pc = "mark_failed",
                                                       !.reason = MissingOperationReason]]
            /\ UNCHANGED videos
       ELSE /\ videos' = [videos EXCEPT ![w.job].operation_name = TRUE]
            /\ worker' = [worker EXCEPT ![t] = [w EXCEPT !.pc = "poll_check"]]
    /\ UNCHANGED <<queue, putters, stop_event, worker_task, sync, outcome, call, log, refresher, loopVars>>
    /\ UNCHANGED poolVars

\* ------------------------------------------------ _poll_until_complete
\* asyncio.sleep(video_status_poll_seconds) before every attempt but the first
_poll_sleep(t) ==
    LET w == worker[t] IN
    /\ w.pc = "poll_sleep"
    /\ worker' = [worker EXCEPT ![t] = [w EXCEPT !.pc = "poll_check", !.sleeps = w.sleeps + 1]]
    /\ UNCHANGED <<videos, queue, putters, stop_event, worker_task, gen, sync, outcome, call, log, refresher, loopVars>>
    /\ UNCHANGED poolVars

\* the poll loop after the attempt w.attempt raised an exception that is
\* not a RuntimeError: it is logged, and re-raised as RuntimeError on the
\* last attempt
PollSwallowed(w) ==
    IF w.attempt = video_status_max_polls - 1
    THEN [w EXCEPT !.pc = "mark_failed", !.reason = PollFailedReason]
    ELSE [w EXCEPT !.pc = "poll_sleep", !.attempt = w.attempt + 1]

\* variant of PollContinue: the loop makes one attempt more
PollContinueOnceMore(w) ==
    IF w.attempt + 1 > video_status_max_polls
    THEN [w EXCEPT !.pc = "mark_failed", !.reason = TimedOutReason]
    ELSE [w EXCEPT !.pc = "poll_sleep", !.attempt = w.attempt + 1]

\* the poll loop after a non-terminal update was applied on attempt
\* w.attempt: next attempt, or asyncio.TimeoutError after the last one
PollContinue(w) ==
    IF w.attempt + 1 >= video_status_max_polls
    THEN [w EXCEPT !.pc = "mark_failed", !.reason = TimedOutReason]
    ELSE [w EXCEPT !.pc = "poll_sleep", !.attempt = w.attempt + 1]

\* check_video_status: _get_credentials of the current account, then the
\* status POST is issued
_poll_check(t, legacy, session) ==
    LET w == worker[t]
        r == _get_credentials(current_account_index, cookies_data, account_health, now,
                              legacy, session)
        w1 == [w EXCEPT !.checks = w.checks + 1]
    IN  /\ w.pc = "poll_check"
        /\ cookies_data' = r.cookies_data
        /\ cookie_file' = IF r.saved THEN r.cookies_data ELSE cookie_file
        /\ account_health' = r.health
        /\ worker' = [worker EXCEPT ![t] =
                        IF r.result = "ok"
                        THEN [w1 EXCEPT !.pc = "poll_wait", !.check_acct = current_account_index]
                        ELSE IF r.result = "RuntimeError"
                        THEN [w1 EXCEPT !.pc = "mark_failed", !.reason = TokenFetchReason]
                        ELSE PollSwallowed(w1)]
        /\ UNCHANGED <<now, current_account_index>>
        /\ UNCHANGED <<videos, queue, putters, stop_event, worker_task, gen, sync, outcome, call, log, refresher, loopVars>>

\* variant of check_video_status_error: a failed status POST is handled as
\* generate_video handles a failed generation POST
check_video_status_error_rotating(idx, h, t) ==
    LET r == rotate_to_next_account(idx, mark_account_failure(idx, h, NoEmail, t), t)
    IN  [index |-> r.index, health |-> r.health]

\* the account pool after the status POST of check_video_status raised:
\* the method has no handler, the exception goes to the caller
check_video_status_error(idx, h, t) == [index |-> idx, health |-> h]

\* the status POST raised: httpx errors are swallowed by the poll loop, the
\* RuntimeError for a non-JSON body is re-raised
_poll_error(t, kind) ==
    LET w == worker[t]
        p == check_video_status_error(current_account_index, account_health, now)
    IN
    /\ w.pc = "poll_wait"
    /\ current_account_index' = p.index
    /\ account_health' = p.health
    /\ UNCHANGED <<now, cookies_data, cookie_file>>
    /\ worker' = [worker EXCEPT ![t] =
                    IF kind = "RuntimeError"
                    THEN [w EXCEPT !.pc = "mark_failed", !.reason = NonJsonReason]
                    ELSE PollSwallowed(w)]
    /\ UNCHANGED <<videos, queue, putters, stop_event, worker_task, gen, sync, outcome, call, log, refresher, loopVars>>

\* the status an update puts into video.status
ApplyStatus(old_status, update) ==
    IF update.status # NoStatus THEN update.status ELSE old_status

ApplyReason(old_reason, update) ==
    IF update.failure_reason # NoReason THEN update.failure_reason ELSE old_reason

\* StorageService.handle_status_update is only at work when the update
\* carries an asset URL
StorageOutcomes(update) ==
    IF update.video_url THEN {"ok", "RuntimeError", "Exception"} ELSE {"ok"}

\* variant of PollTerminal: only COMPLETED ends the loop
PollTerminalCompletedOnly(status) == status = COMPLETED

\* the terminal test of the poll loop
PollTerminal(status) == status \in {COMPLETED, FAILED}

\* the status POST returned: parse_flow_status, _apply_status_update (with
\* its commit) and the terminal test of the poll loop
_poll_response(t, resp, storage) ==
    LET w == worker[t]
        update == parse_flow_status(resp)
        new_status == ApplyStatus(w.mem_status, update)
        new_reason == ApplyReason(w.mem_reason, update)
        w1 == [w EXCEPT !.mem_status = new_status, !.mem_reason = new_reason]
        w2 == [w1 EXCEPT !.updates = w.updates + 1]
    IN  /\ w.pc = "poll_wait"
        /\ storage \in StorageOutcomes(update)
        /\ IF storage # "ok"
           THEN /\ worker' = [worker EXCEPT ![t] =
                     [w EXCEPT !.pc = "mark_failed",
                               !.reason = IF storage = "RuntimeError" THEN StorageReason
                                          ELSE UnexpectedStorageReason]]
                /\ UNCHANGED <<videos, outcome>>
           ELSE /\ videos' = [videos EXCEPT ![w.job] =
                                Commit(@, w.mem_status, w.mem_reason, new_status, new_reason)]
                /\ IF PollTerminal(update.status)
                   THEN IF update.status = FAILED /\ update.failure_reason # NoReason
                        THEN /\ worker' = [worker EXCEPT ![t] =
                                  [w1 EXCEPT !.pc = "mark_failed",
                                             !.reason = GenerationFailed(update.failure_reason)]]
                             /\ UNCHANGED outcome
                        ELSE /\ worker' = [worker EXCEPT ![t] = [DeadWorker EXCEPT !.pc = "get"]]
                             /\ outcome' = [outcome EXCEPT ![w.job] = "returned"]
                   ELSE /\ worker' = [worker EXCEPT ![t] = PollContinue(w2)]
                        /\ UNCHANGED outcome
        /\ UNCHANGED <<queue, putters, stop_event, worker_task, gen, sync, call, log, refresher, loopVars>>
        /\ UNCHANGED poolVars

\* variant of _worker_loop_after_exception: the exception of a job leaves
\* _worker_loop and ends the worker task
_worker_loop_exception_escapes == "dead"

\* where _worker_loop goes after _process_job raised: `except Exception`
\* logs, `finally` calls task_done, and the while loop takes the next job
_worker_loop_after_exception == "get"

\* the row _mark_failed commits (after the rollback of _process_job)
MarkFailedRow(row, reason) ==
    [row EXCEPT !.status = FAILED, !.failure_reason = reason]

\* _process_job's handlers: rollback, _mark_failed, re-raise to _worker_loop,
\* which logs the exception and takes the next job
_mark_failed(t) ==
    LET w == worker[t] IN
    /\ w.pc = "mark_failed"
    /\ videos' = [videos EXCEPT ![w.job] = MarkFailedRow(@, w.reason)]
    /\ worker' = [worker EXCEPT ![t] = [DeadWorker EXCEPT !.pc = _worker_loop_after_exception]]
    /\ outcome' = [outcome EXCEPT ![w.job] = "failed"]
    /\ UNCHANGED <<queue, putters, stop_event, worker_task, gen, sync, call, log, refresher, loopVars>>
    /\ UNCHANGED poolVars

\* ------------------------------------------------ the sync-status route
\* sync_video_status: load the Video, check_video_status is issued
sync_video_status_check(v, legacy, session) ==
    LET r == _get_credentials(current_account_index, cookies_data, account_health, now,
                              legacy, session)
    IN  /\ sync.video = NoVideo
        /\ videos[v].row = "committed"
        /\ videos[v].operation_name
        /\ cookies_data' = r.cookies_data
        /\ cookie_file' = IF r.saved THEN r.cookies_data ELSE cookie_file
        /\ account_health' = r.health
        /\ sync' = IF r.result = "ok"
                   THEN [video |-> v, status |-> videos[v].status,
                         failure_reason |-> videos[v].failure_reason]
                   ELSE NoSync
        /\ UNCHANGED <<now, current_account_index>>
        /\ UNCHANGED <<videos, queue, putters, stop_event, worker_task, worker, gen, outcome, call, log, refresher, loopVars>>

\* the status sync_video_status assigns to the Video
SyncStatus(old_status, update) ==
    IF update.status # NoStatus THEN update.status ELSE old_status

\* the check returned: apply the update; get_session commits, or rolls back
\* when the storage collaborator raised
sync_video_status_apply(resp, storage) ==
    LET update == parse_flow_status(resp)
        v == sync.video
    IN  /\ sync.video # NoVideo
        /\ storage \in StorageOutcomes(update)
        /\ videos' = IF storage = "ok"
                     THEN [videos EXCEPT ![v] =
                             Commit(@, sync.status, sync.failure_reason,
                                    SyncStatus(sync.status, update),
                                    ApplyReason(sync.failure_reason, update))]
                     ELSE videos
        /\ sync' = NoSync
        /\ UNCHANGED <<queue, putters, stop_event, worker_task, worker, gen, outcome, call, log, refresher, loopVars>>
        /\ UNCHANGED poolVars

\* the check raised: the route answers with an HTTP error
sync_video_status_error ==
    LET p == check_video_status_error(current_account_index, account_health, now) IN
    /\ sync.video # NoVideo
    /\ sync' = NoSync
    /\ current_account_index' = p.index
    /\ account_health' = p.health
    /\ UNCHANGED <<now, cookies_data, cookie_file>>
    /\ UNCHANGED <<videos, queue, putters, stop_event, worker_task, worker, gen, outcome, call, log, refresher, loopVars>>

\* the status responses the upstream is taken to send
Responses ==
    {Response(s, FALSE, NoReason, FALSE) :
        s \in {"MEDIA_GENERATION_STATUS_PENDING", "MEDIA_GENERATION_STATUS_RUNNING"}}
    \cup {Response("MEDIA_GENERATION_STATUS_COMPLETED", FALSE, m, u) :
              m \in {NoReason, UpstreamMessage}, u \in BOOLEAN}
    \cup {Response("MEDIA_GENERATION_STATUS_FAILED", FALSE, m, FALSE) :
              m \in {NoReason, UpstreamMessage}}
    \cup {Response("", FALSE, NoReason, FALSE), Response("", TRUE, NoReason, TRUE),
          Response("", TRUE, UpstreamMessage, TRUE)}

\* the response of a generation that went well
CompletedResponse == Response("MEDIA_GENERATION_STATUS_COMPLETED", FALSE, NoReason, TRUE)

\* expiry times handed to update_cookies: one minute inside the safety
\* buffer and one minute outside of it
ExpiryChoices(t) == {t + ExpiryBufferMinutes - 1, t + ExpiryBufferMinutes + 1}

\* ------------------------------------------------ the account pool alone
NextPool ==
    \/ Tick
    \/ \E email \in Accounts \cup {NoEmail} : CallMarkAccountFailure(email)
    \/ \E email \in Accounts, auth \in {TRUE}, e \in ExpiryChoices(now) :
           CallUpdateCookies(email, auth, e)
    \/ CallUpdateCookiesAgain
    \/ CallRotate

SpecPool == Init /\ [][NextPool]_vars

\* ------------------------------------------------ one job, every outcome
\* The worker, the sync-status route and start/stop around the jobs of Jobs,
\* with every outcome of the upstream, of the storage collaborator and of
\* the credential sources.  (A submission never finds the queue full here.)
Next ==
    \/ start
    \/ stop
    \/ \E v \in Jobs : create_video(v)
    \/ \E v \in Jobs : commit_video(v)
    \/ \E t \in Tasks : _worker_loop_get(t)
    \/ \E t \in Tasks : _load_video_miss(t)
    \/ \E t \in Tasks : _load_video_hit(t)
    \/ \E t \in Tasks, ok \in BOOLEAN : _begin_generation(t, ok)
    \/ \E t \in Tasks, l \in LegacyOutcomes, ss \in SessionOutcomes(now) :
           _run_generation_creds(t, l, ss)
    \/ \E t \in Tasks, o \in PostOutcomes : _run_generation_post(t, o)
    \/ \E t \in Tasks : _run_generation_return(t)
    \/ \E t \in Tasks : _poll_sleep(t)
    \/ \E t \in Tasks, l \in LegacyOutcomes, ss \in SessionOutcomes(now) : _poll_check(t, l, ss)
    \/ \E t \in Tasks, k \in {"RuntimeError", "HTTPStatusError"} : _poll_error(t, k)
    \/ \E t \in Tasks, r \in Responses, st \in {"ok", "RuntimeError", "Exception"} :
           _poll_response(t, r, st)
    \/ \E t \in Tasks : _mark_failed(t)
    \/ \E v \in Jobs, l \in LegacyOutcomes, ss \in SessionOutcomes(now) :
           sync_video_status_check(v, l, ss)
    \/ \E r \in Responses, st \in {"ok", "RuntimeError", "Exception"} :
           sync_video_status_apply(r, st)
    \/ sync_video_status_error

Spec == InitStore /\ [][Next]_vars

\* ------------------------------------------------ the queue under load
\* Every Video of Videos is submitted; the upstream, the storage
\* collaborator and the database answer every call successfully.
NextQueue ==
    \/ start
    \/ stop
    \/ \E v \in Videos : create_video(v)
    \/ \E v \in Videos : enqueue_resume(v)
    \/ \E v \in Videos : commit_video(v)
    \/ \E t \in Tasks : _worker_loop_get(t)
    \/ \E t \in Tasks : _load_video_miss(t)
    \/ \E t \in Tasks : _load_video_hit(t)
    \/ \E t \in Tasks : _begin_generation(t, TRUE)
    \/ \E t \in Tasks, ss \in SessionOutcomes(now) : _run_generation_creds(t, "ok", ss)
    \/ \E t \in Tasks : _run_generation_post(t, NamedResponse)
    \/ \E t \in Tasks : _run_generation_return(t)
    \/ \E t \in Tasks, ss \in SessionOutcomes(now) : _poll_check(t, "ok", ss)
    \/ \E t \in Tasks : _poll_response(t, CompletedResponse, "ok")

SpecQueue == Init /\ [][NextQueue]_vars

\* ------------------------------------------------ concurrent generation
\* Requests of the /generate-video route running concurrently on the one
\* FlowClient of routes.py, each suspended at its awaits.
NextGen ==
    \/ \E c \in Requests : route_generate_start(c)
    \/ \E c \in Requests, l \in LegacyOutcomes, ss \in SessionOutcomes(now) :
           route_generate_creds(c, l, ss)
    \/ \E c \in Requests, o \in PostOutcomes : route_generate_post(c, o)
    \/ \E c \in Requests : route_generate_return(c)

SpecGen == InitStore /\ [][NextGen]_vars

\* ------------------------------------------------ generation over time
\* One request of the /generate-video route after the other, the clock
\* advancing between two requests (a request takes seconds, a clock step
\* minutes).
FirstRequest == MaxTasks + 1

TickBetweenRequests ==
    /\ gen[FirstRequest].pc = "idle"
    /\ Tick

NextSolo ==
    \/ TickBetweenRequests
    \/ route_generate_start(FirstRequest)
    \/ \E l \in LegacyOutcomes, ss \in SessionOutcomes(now) :
           route_generate_creds(FirstRequest, l, ss)
    \/ \E o \in PostOutcomes : route_generate_post(FirstRequest, o)
    \/ route_generate_return(FirstRequest)

SpecSolo == InitStore /\ [][NextSolo]_vars

\* ------------------------------------------------ the worker left running
\* Every Video is submitted and stop() is never called; every call of the
\* upstream and of the database returns, with a result or with an exception:
\* the commit of _begin_generation may raise (a job ends in the catch-all
\* handler), generate_video may raise or the upstream may report FAILED (the
\* RuntimeError handler), the polls may run out (the TimeoutError handler).
LiveResponses ==
    {Response("MEDIA_GENERATION_STATUS_RUNNING", FALSE, NoReason, FALSE),
     Response("MEDIA_GENERATION_STATUS_FAILED", FALSE, UpstreamMessage, FALSE),
     CompletedResponse}

WorkerStep(t) ==
    \/ _worker_loop_get(t)
    \/ _load_video_miss(t)
    \/ _load_video_hit(t)
    \/ \E ok \in BOOLEAN : _begin_generation(t, ok)
    \/ _run_generation_creds(t, "ok", [kind |-> "expired", expires |-> NoTime])
    \/ \E o \in {NamedResponse, OtherError} : _run_generation_post(t, o)
    \/ _run_generation_return(t)
    \/ _poll_sleep(t)
    \/ _poll_check(t, "ok", [kind |-> "expired", expires |-> NoTime])
    \/ \E r \in LiveResponses : _poll_response(t, r, "ok")
    \/ _mark_failed(t)

\* the Videos are submitted in the order of their numbers
create_next_video(v) ==
    /\ \A u \in Videos : u < v => videos[u].row # "none"
    /\ create_video(v)

NextLive ==
    \/ start
    \/ \E v \in Videos : create_next_video(v)
    \/ \E v \in Videos : enqueue_resume(v)
    \/ \E v \in Videos : commit_video(v)
    \/ \E t \in Tasks : WorkerStep(t)

\* the event loop runs a task whose await has completed: the worker task
\* takes its next step, a suspended Queue.put resumes when there is room
FairLive ==
    /\ \A t \in Tasks : WF_vars(WorkerStep(t))
    /\ \A v \in Videos : WF_vars(enqueue_resume(v))

SpecLive == Init /\ [][NextLive]_vars /\ FairLive

\* ------------------------------------------------ worker and route together
\* The worker processes the jobs of Jobs while a request of the
\* /generate-video route runs on the same FlowClient (routes.py imports the
\* flow_client that main.py hands to the VideoQueue).
NextShare ==
    \/ start
    \/ \E v \in Jobs : create_video(v)
    \/ \E v \in Jobs : commit_video(v)
    \/ \E t \in Tasks : WorkerStep(t)
    \/ route_generate_start(FirstRequest)
    \/ \E l \in LegacyOutcomes, ss \in SessionOutcomes(now) :
           route_generate_creds(FirstRequest, l, ss)
    \/ \E o \in {NamedResponse, HttpError} : route_generate_post(FirstRequest, o)
    \/ route_generate_return(FirstRequest)

SpecShare == InitStore /\ [][NextShare]_vars

\* ------------------------------------------------ the account refresher
\* MultiAccountCookieManager.needs_refresh
needs_refresh(cd, email, t) ==
    \/ ~cd[email].present
    \/ _are_cookies_expired(cd[email], t)

\* the jar the browser login of _refresh_account_cookies stores: cookies
\* without a bearer token
RefreshedJarExpiry(t) == t + 2 * CooldownMinutes

\* MultiAccountRefresher._check_and_refresh_accounts, for one account: the
\* refresher works on the MultiAccountCookieManager it built in __init__
\* (refreshes counts the logins, which the code does not).
\* login says whether the browser login went well (update_cookies, which
\* saves the jars of that manager) or raised (mark_account_failure).
_refresh_account_cookies(email, login) ==
    LET h == refresher.account_health
        cd == refresher.cookies_data
    IN  /\ ~(h[email].cooldown_until # NoTime /\ now < h[email].cooldown_until)
        /\ needs_refresh(cd, email, now)
        /\ refresher.refreshes < MaxRefreshes
        /\ IF login
           THEN /\ refresher' =
                     [cookies_data |-> update_cookies_jar(cd, email, FALSE,
                                                          RefreshedJarExpiry(now), now),
                      account_health |-> _mark_success(h, email, now),
                      refreshes |-> refresher.refreshes + 1]
                /\ cookie_file' = refresher'.cookies_data
           ELSE /\ h[email].failures < MaxFailures
                /\ refresher' = [refresher EXCEPT
                                   !.account_health = mark_account_failure(0, h, email, now),
                                   !.refreshes = @ + 1]
                /\ UNCHANGED cookie_file
        /\ UNCHANGED <<now, current_account_index, account_health, cookies_data, call>>
        /\ UNCHANGED <<queueVars, loopVars>>

\* The /generate-video route and the account refresher side by side.  The
\* refresher acts once the FlowClient has built its own manager, which
\* _get_cookie_manager does at the first generate_video call.
RefresherStep ==
    /\ gen[FirstRequest].pc # "idle"
    /\ \E email \in Accounts, login \in BOOLEAN : _refresh_account_cookies(email, login)

NextStore ==
    \/ TickBetweenRequests
    \/ route_generate_start(FirstRequest)
    \/ \E l \in LegacyOutcomes, ss \in SessionOutcomes(now) :
           route_generate_creds(FirstRequest, l, ss)
    \/ \E o \in {NamedResponse, HttpError} : route_generate_post(FirstRequest, o)
    \/ route_generate_return(FirstRequest)
    \/ RefresherStep

SpecStore == InitStore /\ [][NextStore]_vars

\* ------------------------------------------------ the cookie refresh loop
\* should_refresh_cookies_early: the expiry cannot be read, or is further
\* away than the margin
should_refresh_cookies_early(expiry, t) ==
    IF expiry = NoTime THEN FALSE ELSE expiry - t <= EarlyMarginHours

\* the lifetimes of the cookies the refresh script stores, in hours
CookieLifetimes == {12, 30}

\* what _run_cookie_refresh can do: the script stores new cookies, the
\* script is not there (the method returns), the script fails (RuntimeError)
RefreshOutcomes == [kind : {"stored"}, lifetime : CookieLifetimes]
                   \cup {[kind |-> "missing", lifetime |-> 0], [kind |-> "failed", lifetime |-> 0]}

\* the expiry in the cookie file after _run_cookie_refresh
_run_cookie_refresh(expiry, t, result) ==
    IF result.kind = "stored" THEN t + result.lifetime ELSE expiry

\* the timer of the wait the loop is in has run out
TimerDue(loop) == loop.pc \in {"wait_long", "wait_backoff"} /\ loop.deadline = hour

\* an hour passes while the cookie refresh loop is in a wait whose timer has
\* not run out (the steps of the loops take seconds)
HourPasses ==
    /\ hour < MaxHours
    /\ cookie_loop.pc \in {"wait_long", "wait_backoff"}
    /\ ~TimerDue(cookie_loop)
    /\ hour' = hour + 1
    /\ UNCHANGED <<flow_cookie_expiry, cookie_loop, token_loop>>
    /\ UNCHANGED <<now, current_account_index, account_health, cookies_data, cookie_file, call>>
    /\ UNCHANGED <<queueVars, refresher>>

\* the top of the loop: the early check, the early refresh if it is due
\* (its exception is logged), then the long wait begins
_refresh_loop_top(result) ==
    LET early == should_refresh_cookies_early(flow_cookie_expiry, hour) IN
    /\ cookie_loop.pc = "top"
    /\ ~early => result.kind = "missing"
    /\ flow_cookie_expiry' = IF early THEN _run_cookie_refresh(flow_cookie_expiry, hour, result)
                             ELSE flow_cookie_expiry
    /\ cookie_loop' = [pc |-> "wait_long",
                       deadline |-> hour + CookieRefreshIntervalHours,
                       failed_scheduled |-> IF early THEN FALSE
                                            ELSE cookie_loop.failed_scheduled]
    /\ UNCHANGED <<hour, token_loop>>
    /\ UNCHANGED <<now, current_account_index, account_health, cookies_data, cookie_file, call>>
    /\ UNCHANGED <<queueVars, refresher>>

\* the long wait timed out: the scheduled refresh; when it raises, the
\* back-off wait begins
_refresh_loop_timeout(result) ==
    /\ cookie_loop.pc = "wait_long"
    /\ TimerDue(cookie_loop)
    /\ flow_cookie_expiry' = _run_cookie_refresh(flow_cookie_expiry, hour, result)
    /\ cookie_loop' = IF result.kind = "failed"
                      THEN [pc |-> "wait_backoff", deadline |-> hour + BackoffHours,
                            failed_scheduled |-> TRUE]
                      ELSE [pc |-> "top", deadline |-> NoTime,
                            failed_scheduled |-> FALSE]
    /\ UNCHANGED <<hour, token_loop>>
    /\ UNCHANGED <<now, current_account_index, account_health, cookies_data, cookie_file, call>>
    /\ UNCHANGED <<queueVars, refresher>>

\* the back-off wait timed out: continue
_refresh_loop_backoff_timeout ==
    /\ cookie_loop.pc = "wait_backoff"
    /\ TimerDue(cookie_loop)
    /\ cookie_loop' = [cookie_loop EXCEPT !.pc = "top", !.deadline = NoTime]
    /\ UNCHANGED <<hour, flow_cookie_expiry, token_loop>>
    /\ UNCHANGED <<now, current_account_index, account_health, cookies_data, cookie_file, call>>
    /\ UNCHANGED <<queueVars, refresher>>

\* ------------------------------------------------ the token refresh loop
\* what the session endpoint holds for the stored cookies: a token that
\* expires in so many seconds, no session (the cookies have expired), or an
\* HTTP error
SessionAnswers ==
    [kind : {"token"}, seconds : {30, 600}]
    \cup {[kind |-> "expired", seconds |-> 0], [kind |-> "http_error", seconds |-> 0]}

\* `await refresher.fetch_session()` of refresh_loop.  fetch_session(self,
\* cookies) has a required parameter and the call passes no argument: the
\* call raises TypeError before a request is made, whatever the endpoint
\* holds.
fetch_session_without_cookies(answer) == "TypeError"

\* one iteration of refresh_loop up to its wait: the locals, and the expiry
\* in the cookie file, after it
refresh_loop_body(loop, expiry, t, answer, result) ==
    LET fetched == fetch_session_without_cookies(answer)
        n == loop.consecutive_cookie_failures + 1
        backoff == IF n >= 6 THEN 3600 ELSE 60 * (2 ^ n)
    IN  CASE fetched = "SessionData" ->
                [loop |-> [pc |-> "wait",
                           delay |-> IF answer.seconds > 60 THEN answer.seconds ELSE 60,
                           consecutive_cookie_failures |-> 0,
                           answer |-> answer.kind, refreshed |-> FALSE],
                 expiry |-> expiry]
          [] fetched = "CookieExpiredError" ->
                [loop |-> IF result.kind = "failed"
                          THEN [pc |-> "wait", delay |-> backoff,
                                consecutive_cookie_failures |-> n,
                                answer |-> answer.kind, refreshed |-> TRUE]
                          ELSE [pc |-> "wait", delay |-> 10,
                                consecutive_cookie_failures |-> 0,
                                answer |-> answer.kind, refreshed |-> TRUE],
                 expiry |-> _run_cookie_refresh(expiry, t, result)]
          [] OTHER ->
                [loop |-> [pc |-> "wait", delay |-> 120,
                           consecutive_cookie_failures |-> loop.consecutive_cookie_failures,
                           answer |-> answer.kind, refreshed |-> FALSE],
                 expiry |-> expiry]

refresh_loop_iteration(answer, result) ==
    LET r == refresh_loop_body(token_loop, flow_cookie_expiry, hour, answer, result) IN
    /\ token_loop.pc = "run"
    /\ token_loop' = r.loop
    /\ flow_cookie_expiry' = r.expiry
    /\ UNCHANGED <<hour, cookie_loop>>
    /\ UNCHANGED <<now, current_account_index, account_health, cookies_data, cookie_file, call>>
    /\ UNCHANGED <<queueVars, refresher>>

\* the wait of delay seconds timed out: continue
refresh_loop_timeout ==
    /\ token_loop.pc = "wait"
    /\ token_loop' = [token_loop EXCEPT !.pc = "run"]
    /\ UNCHANGED <<hour, flow_cookie_expiry, cookie_loop>>
    /\ UNCHANGED <<now, current_account_index, account_health, cookies_data, cookie_file, call>>
    /\ UNCHANGED <<queueVars, refresher>>

\* ------------------------------------------------ lifespan
\* startup: the token refresh task is created, cookie_refresher.start()
lifespan_startup ==
    /\ token_loop.pc = "stopped" /\ cookie_loop.pc = "stopped"
    /\ hour = 0
    /\ token_loop' = [token_loop EXCEPT !.pc = "run"]
    /\ cookie_loop' = [cookie_loop EXCEPT !.pc = "top"]
    /\ UNCHANGED <<hour, flow_cookie_expiry>>
    /\ UNCHANGED <<now, current_account_index, account_health, cookies_data, cookie_file, call>>
    /\ UNCHANGED <<queueVars, refresher>>

\* shutdown: stop_event.set(), cookie_refresher.stop() and
\* refresh_task.cancel() end both loops at the await they are suspended in
lifespan_shutdown ==
    /\ token_loop.pc # "stopped" \/ cookie_loop.pc # "stopped"
    /\ token_loop' = [token_loop EXCEPT !.pc = "stopped"]
    /\ cookie_loop' = [cookie_loop EXCEPT !.pc = "stopped", !.deadline = NoTime]
    /\ UNCHANGED <<hour, flow_cookie_expiry>>
    /\ UNCHANGED <<now, current_account_index, account_health, cookies_data, cookie_file, call>>
    /\ UNCHANGED <<queueVars, refresher>>

\* the expiry found in the legacy cookie file at startup
CookieFileExpiries == {NoTime} \cup CookieLifetimes

InitRefresh == \E expiry \in CookieFileExpiries : InitFiles([a \in Accounts |-> NoJar], expiry)

NextRefresh ==
    \/ lifespan_startup
    \/ lifespan_shutdown
    \/ HourPasses
    \/ \E result \in RefreshOutcomes : _refresh_loop_top(result)
    \/ \E result \in RefreshOutcomes : _refresh_loop_timeout(result)
    \/ _refresh_loop_backoff_timeout
    \/ \E answer \in SessionAnswers, result \in RefreshOutcomes :
           refresh_loop_iteration(answer, result)
    \/ refresh_loop_timeout

SpecRefresh == InitRefresh /\ [][NextRefresh]_vars

\* ================================================================ properties
\* the account is in a cooldown that has not ended yet
CoolingDown(a) ==
    /\ account_health[a].cooldown_until # NoTime
    /\ now < account_health[a].cooldown_until

NoDuplicates(seq) == \A i, j \in 1 .. Len(seq) : i # j => seq[i] # seq[j]

C9_FailedRotationChangesNothing ==
    [][(CallRotate /\ ~call'.ret) =>
          /\ current_account_index' = current_account_index
          /\ account_health' = account_health]_vars

\* rotate() has just returned false, later than the start and while the
\* current account is not the first one
C9_Witness ==
    /\ call.op = "rotate_to_next_account"
    /\ ~call.ret
    /\ current_account_index # 0
    /\ now > 0

\* the account a report_failure(email) is about
FailureTarget(email) ==
    IF email = NoEmail THEN current_account_index ELSE email

\* the effect of one report_failure on the health map
ReportFailureEffect(email) ==
    LET a == FailureTarget(email)
        n == account_health[a].failures + 1
    IN  /\ account_health'[a].failures = n
        /\ \A b \in Accounts \ {a} : account_health'[b] = account_health[b]
        /\ n = FailureThreshold =>
               /\ ~account_health'[a].is_healthy
               /\ account_health'[a].cooldown_until = now + CooldownMinutes
        /\ n < FailureThreshold =>
               /\ account_health'[a].is_healthy
               /\ account_health'[a].cooldown_until = NoTime

\* the effect of one report_success on the health map
ReportSuccessEffect(email) ==
    /\ account_health'[email].failures = 0
    /\ account_health'[email].is_healthy
    /\ account_health'[email].cooldown_until = NoTime
    /\ \A b \in Accounts \ {email} : account_health'[b] = account_health[b]

\* C10 as stated: consecutive_failures is the number of failures reported
\* for the account since success was last reported for it.
C10_CountsSinceSuccess ==
    \A a \in Accounts : account_health[a].failures = account_health[a].reported

\* C10, amended: consecutive_failures is the number of failures reported for
\* the account since success was last reported for it or rotate() last reset
\* it after an elapsed cooldown; report_failure adds exactly 1 to that
\* account only (the current one when none is given), report_success sets it
\* to 0 with is_healthy true and cooldown_until null, and the account becomes
\* unhealthy with cooldown_until = now + 10 min exactly when the count
\* reaches 3 (healthy with no cooldown at 1 and 2).
C10_CountsSinceSuccessOrReset ==
    /\ [](\A a \in Accounts :
            account_health[a].failures =
                account_health[a].reported - account_health[a].forgiven)
    /\ [][\A email \in Accounts \cup {NoEmail} :
            CallMarkAccountFailure(email) => ReportFailureEffect(email)]_vars
    /\ [][\A email \in Accounts, e \in ExpiryChoices(now) :
            CallUpdateCookies(email, TRUE, e) => ReportSuccessEffect(email)]_vars

\* a failure has just been reported for an account whose earlier failures
\* rotate() had reset
C10_Witness ==
    /\ call.op = "mark_account_failure"
    /\ \E a \in Accounts :
           /\ account_health[a].forgiven >= FailureThreshold
           /\ account_health[a].failures = 1
           /\ account_health[a].is_healthy

Range(seq) == {seq[i] : i \in 1 .. Len(seq)}

Terminal == {COMPLETED, FAILED}

\* C1: for every job whose Video row is loaded, when the worker finishes the
\* job (normally, or through any exception raised while beginning
\* generation, starting generation or polling) the persisted Video status is
\* COMPLETED or FAILED.
C1_FinishedJobIsTerminal ==
    [][\A v \in Videos :
          (outcome[v] = "none" /\ outcome'[v] \in {"returned", "failed", "cancelled"})
              => videos'[v].status \in Terminal]_vars

StatusRank(status) ==
    CASE status = NoStatus -> 0
      [] status = PENDING -> 1
      [] status = PROCESSING -> 2
      [] OTHER -> 3

\* C2: across worker steps and sync-status calls a Video's persisted status
\* only moves forward along PENDING -> PROCESSING -> {COMPLETED, FAILED}: no
\* write replaces it by an earlier one, and a COMPLETED or FAILED Video never
\* changes status again.
C2_StatusOnlyAdvances ==
    [][\A v \in Videos :
          /\ StatusRank(videos'[v].status) >= StatusRank(videos[v].status)
          /\ videos[v].status \in Terminal => videos'[v].status = videos[v].status]_vars

\* the worker tasks that exist, and the jobs between dequeue and the end of
\* their processing
LiveWorkers == {t \in Tasks : worker[t].pc # "dead"}
InFlight == {v \in Range(log.got) : outcome[v] = "none"}

\* C3: after any sequence of start(), stop() and enqueue() calls there is at
\* most one worker task, and at most one job is between being dequeued and
\* finishing its processing.
C3_OneWorkerOneJob ==
    /\ Cardinality(LiveWorkers) <= 1
    /\ Cardinality(InFlight) <= 1
    /\ Cardinality({t \in Tasks : worker[t].job # NoVideo}) <= 1
    /\ worker_task # NoTask => LiveWorkers = {worker_task}

\* a worker started after a stop() that cancelled a job has a job in flight
\* while another one is queued
C3_Witness ==
    /\ \E v \in Videos : outcome[v] = "cancelled"
    /\ Cardinality(InFlight) = 1
    /\ queue # <<>>
    /\ worker_task # NoTask

\* C4: the number of queued jobs never exceeds the configured capacity; an
\* enqueue on a full queue is suspended (its job is in neither the queue nor
\* lost) and can complete as soon as the queue has room; every submitted job
\* is suspended, queued or was received by the worker, exactly once; and the
\* worker receives the jobs in the order their enqueue() returned.
C4_BoundedFifo ==
    /\ Len(queue) <= video_queue_maxsize
    /\ log.got \o queue = log.put
    /\ NoDuplicates(log.put)
    /\ putters \cap Range(log.put) = {}
    /\ putters \cup Range(log.put) = {v \in Videos : videos[v].row # "none"}
    /\ putters \subseteq log.waited
    /\ \A v \in putters : ~QueueFull(queue) => ENABLED enqueue_resume(v)

\* a job whose enqueue() was suspended on the full queue has been received
\* by the worker, after the jobs enqueued before it
C4_Witness ==
    /\ Len(log.got) = NumVideos
    /\ log.got[NumVideos] \in log.waited
    /\ log.got[1] > log.got[2]

\* C5: one start_generation call makes at most min(pool_size, 3) POST
\* attempts, and no account is attempted more than once within that call.
C5_DistinctAccounts ==
    \A c \in Callers :
        /\ Len(gen[c].tried) <= max_attempts
        /\ NoDuplicates(gen[c].tried)

\* C6: each start_generation attempt that ends in an HTTP 4xx/5xx increases
\* the consecutive_failures of the account that made the failing request by
\* exactly 1 and of no other account, and a following attempt is made only
\* after rotate() has been called.
C6_FailureChargedToFailingAccount ==
    [][\A c \in Requests :
          /\ route_generate_post(c, HttpError) =>
                /\ account_health'[gen[c].acct].failures =
                       account_health[gen[c].acct].failures + 1
                /\ \A b \in Accounts \ {gen[c].acct} :
                       account_health'[b].failures <= account_health[b].failures
          /\ gen'[c].attempt > gen[c].attempt =>
                \E a \in Accounts :
                    LET r == rotate_to_next_account(current_account_index,
                                 _mark_failure(account_health, a, now), now)
                    IN  r.ret /\ current_account_index' = r.index
                              /\ account_health' = r.health]_vars

\* C7: when a start_generation attempt succeeds on an account, that
\* account's last_success is updated in the pool (consecutive_failures 0,
\* healthy), and the job proceeds to polling.
C7_SuccessReported ==
    [][\A t \in Tasks :
          /\ (\E o \in PostResponses : _run_generation_post(t, o)) =>
                /\ account_health'[gen[t].acct].last_success = now
                /\ account_health'[gen[t].acct].failures = 0
                /\ account_health'[gen[t].acct].is_healthy
          /\ (_run_generation_return(t) /\ gen[t].pc \in {"named", "header", "empty"}) =>
                worker'[t].pc = "poll_check"]_vars

\* ------------------------------------------------ C11
\* C11: get_current_cookies returns nothing exactly when no jar is stored for
\* the current account or now >= expires_at - 5 minutes; a jar that expires 4
\* minutes from now is withheld, one that expires 6 minutes from now is
\* returned.
C11_ExpiryBuffer ==
    LET jar == cookies_data[get_current_account(current_account_index)]
        got == get_current_cookies(current_account_index, cookies_data, now)
    IN  /\ (got = NoJar) <=> (~jar.present \/ now >= jar.expires_at - 5)
        /\ got # NoJar => got = jar
        /\ jar.present /\ jar.expires_at = now + 4 => got = NoJar
        /\ jar.present /\ jar.expires_at = now + 6 => got = jar

\* update_cookies has stored a jar for each of two accounts, one expiring in
\* 4 minutes (the current account's, withheld) and one expiring in 6
C11_Witness ==
    /\ call.op = "update_cookies"
    /\ cookies_data[current_account_index].present
    /\ cookies_data[current_account_index].expires_at = now + 4
    /\ get_current_cookies(current_account_index, cookies_data, now) = NoJar
    /\ \E a \in Accounts :
           /\ cookies_data[a].present
           /\ cookies_data[a].expires_at = now + 6
           /\ get_current_cookies(a, cookies_data, now) = cookies_data[a]

\* ------------------------------------------------ C12
\* C12 as stated: a second update_cookies(email, cookies, expires_at) with
\* the arguments of the first leaves the account's health record and the
\* stored jar as the first call left them, except for the jar's
\* last_refreshed.
C12_SecondUpdateChangesOnlyLastRefreshed ==
    [][CallUpdateCookiesAgain =>
          /\ account_health' = account_health
          /\ cookies_data' = [cookies_data EXCEPT ![call.updated].last_refreshed = now]]_vars

\* C12: the second call leaves the health record and the jar as the first
\* call left them, except for the jar's last_refreshed and the health
\* record's last_success, which take the time of the second call.
C12_SecondUpdateChangesOnlyTimestamps ==
    [][CallUpdateCookiesAgain =>
          /\ account_health' = [account_health EXCEPT ![call.updated].last_success = now]
          /\ cookies_data' = [cookies_data EXCEPT ![call.updated].last_refreshed = now]
          /\ current_account_index' = current_account_index]_vars

\* the second call has been made later than the first
C12_Witness ==
    /\ call.op = "update_cookies"
    /\ cookies_data[call.updated].last_refreshed = now
    /\ cookies_data[call.updated].expires_at < now + ExpiryBufferMinutes - 1
    /\ account_health[call.updated].last_success = now

\* ------------------------------------------------ C13
\* C13: a poll loop all of whose status checks return a non-terminal status
\* makes exactly video_status_max_polls checks and video_status_max_polls - 1
\* sleeps, never sleeps before its first check, and raises the timeout only
\* after the last check.
C13_PollsThenTimesOut ==
    \A t \in Tasks :
        LET w == worker[t] IN
        /\ w.pc = "poll_check" =>
               w.checks = w.attempt /\ w.sleeps = w.attempt /\ w.attempt < video_status_max_polls
        /\ w.pc = "poll_wait" => w.checks = w.attempt + 1 /\ w.sleeps = w.attempt
        /\ w.pc = "poll_sleep" =>
               w.checks = w.attempt /\ w.sleeps = w.attempt - 1 /\ w.checks >= 1
        /\ w.updates = w.checks /\ w.pc \in {"poll_sleep", "poll_check"} =>
               w.updates < video_status_max_polls
        /\ w.updates = video_status_max_polls =>
               w.pc = "mark_failed" /\ w.reason = TimedOutReason
        /\ w.pc = "mark_failed" /\ w.reason = TimedOutReason =>
               /\ w.checks = video_status_max_polls
               /\ w.sleeps = video_status_max_polls - 1

\* every check of the job returned a non-terminal status and the timeout has
\* been raised
C13_Witness ==
    \E t \in Tasks :
        /\ worker[t].pc = "mark_failed"
        /\ worker[t].reason = TimedOutReason
        /\ worker[t].updates = video_status_max_polls
        /\ worker[t].checks = video_status_max_polls
        /\ worker[t].sleeps = video_status_max_polls - 1

\* ------------------------------------------------ C14
\* the step in which the poll loop of task t uses up its last attempt
\* without a terminal status: the last check returned a non-terminal status
\* that was applied, or raised an exception that the loop does not treat as
\* permanent
LastAttemptWithoutTerminal(t) ==
    /\ worker[t].attempt = video_status_max_polls - 1
    /\ \/ \E r \in Responses :
              /\ parse_flow_status(r).status \notin {COMPLETED, FAILED}
              /\ _poll_response(t, r, "ok")
       \/ _poll_error(t, "HTTPStatusError")
       \/ \E l \in LegacyOutcomes, ss \in SessionOutcomes(now) :
              /\ _get_credentials(current_account_index, cookies_data, account_health,
                                  now, l, ss).result = "ValueError"
              /\ _poll_check(t, l, ss)

\* the reasons written for upstream generation errors and for storage errors
GenerationAndStorageReasons ==
    {GenerationFailed(m) : m \in {UpstreamMessage, NoReason}}
    \cup {InitiateFailedReason, MissingOperationReason, StorageReason, UnexpectedStorageReason}

\* C14: a job whose polling uses up all video_status_max_polls attempts
\* without reaching a terminal status is marked FAILED with the timeout
\* reason, which is none of the reasons written for upstream generation
\* errors and storage errors.
C14_ExhaustedPollingTimesOut ==
    /\ [](TimedOutReason \notin GenerationAndStorageReasons)
    /\ [][\A t \in Tasks : LastAttemptWithoutTerminal(t) =>
              /\ worker'[t].pc = "mark_failed"
              /\ worker'[t].reason = TimedOutReason]_vars
    /\ [][\A t \in Tasks : _mark_failed(t) /\ worker[t].reason = TimedOutReason =>
              /\ videos'[worker[t].job].status = FAILED
              /\ videos'[worker[t].job].failure_reason = TimedOutReason]_vars

\* ------------------------------------------------ C15
PollPositions == {"poll_sleep", "poll_check", "poll_wait"}

C16_UpstreamMessagePersisted ==
    [][\A t \in Tasks :
          /\ worker[t].mem_status = FAILED
          /\ worker[t].mem_reason = UpstreamMessage
          /\ _mark_failed(t)
          => /\ videos'[worker[t].job].status = FAILED
             /\ videos'[worker[t].job].failure_reason = UpstreamMessage]_vars

\* ------------------------------------------------ C17
\* C17: whenever the worker's processing of a job leaves the Video FAILED,
\* the persisted failure_reason is a text, never null.
C17_FailedHasReason ==
    [][\A v \in Videos :
          /\ outcome[v] = "none"
          /\ outcome'[v] \in {"returned", "failed"}
          /\ videos'[v].status = FAILED
          => videos'[v].failure_reason # NoReason]_vars

\* ------------------------------------------------ C18
\* the step in which an attempt of caller c's generate_video raises an
\* exception that is not an HTTP status error, from _get_credentials or from
\* the POST
AttemptRaisesOther(c) ==
    \/ generate_video_post(c, OtherError)
    \/ \E l \in LegacyOutcomes, ss \in SessionOutcomes(now) :
           /\ _get_credentials(current_account_index, cookies_data, account_health,
                               now, l, ss).result # "ok"
           /\ generate_video_creds(c, l, ss)

\* C18: when an attempt of generate_video raises anything other than an HTTP
\* status error, the call aborts after that attempt: it tries no further
\* account, current_account_index keeps its value and no account's failure
\* count is incremented.
C18_OtherErrorAborts ==
    /\ [][\A c \in Callers : AttemptRaisesOther(c) =>
              /\ gen'[c].pc = "raised"
              /\ gen'[c].tried = gen[c].tried
              /\ current_account_index' = current_account_index
              /\ \A a \in Accounts :
                     account_health'[a].failures = account_health[a].failures]_vars
    /\ [][\A c \in Callers : gen[c].pc = "raised" => gen'[c].pc \in {"raised", "idle"}]_vars

\* the POST of the first attempt has raised such an exception while the
\* other account was healthy: the call is over, nothing was rotated or counted
C18_Witness ==
    \E c \in Callers :
        /\ gen[c].pc = "raised"
        /\ gen[c].attempt = 0
        /\ Len(gen[c].tried) = 1
        /\ current_account_index = gen[c].tried[1]
        /\ \A a \in Accounts : account_health[a].failures = 0 /\ account_health[a].is_healthy

\* ------------------------------------------------ C19
\* the step in which caller c's generate_video has to move to another
\* account after an HTTP status error and rotate_to_next_account finds none
RotationFindsNoAccount(c) ==
    /\ gen[c].attempt < max_attempts - 1
    /\ ~rotate_to_next_account(current_account_index,
                               mark_account_failure(current_account_index, account_health,
                                                    NoEmail, now),
                               now).ret
    /\ generate_video_post(c, HttpError)

\* C19: when generate_video needs another account and every account is
\* unhealthy or cooling down, it aborts at once and raises an explicit "no
\* healthy accounts" error, not the HTTP error of the last attempt.
C19_NoHealthyAccountsError ==
    [][\A c \in Callers : RotationFindsNoAccount(c) =>
          /\ gen'[c].pc = "raised"
          /\ gen'[c].error = "no healthy accounts"
          /\ gen'[c].error # "HTTPStatusError"]_vars

\* ------------------------------------------------ C20
\* account a is healthy and its stored cookies can be used
UsableAccount(a) ==
    /\ account_health[a].is_healthy
    /\ account_health[a].cooldown_until = NoTime
    /\ get_current_cookies(a, cookies_data, now) # NoJar

\* the step in which _get_credentials of worker t's generate_video learns
\* from the session endpoint that the current account's cookies have
\* expired, while the call has attempts left and another account is usable
SessionExpiredWithSpareAccount(t) ==
    /\ gen[t].attempt < max_attempts - 1
    /\ \E a \in Accounts : a # current_account_index /\ UsableAccount(a)
    /\ \E l \in LegacyOutcomes, ss \in SessionOutcomes(now) :
           /\ ss.kind = "expired"
           /\ _get_credentials(current_account_index, cookies_data, account_health,
                               now, l, ss).result = "RuntimeError"
           /\ _run_generation_creds(t, l, ss)

\* C20: session expiry reported while the credentials of the current account
\* are resolved does not fail the in-flight job when another account is
\* healthy and has usable credentials: generate_video goes on with another
\* account.
C20_SessionExpiryRotates ==
    [][\A t \in Tasks : SessionExpiredWithSpareAccount(t) =>
          /\ gen'[t].pc = "creds"
          /\ gen'[t].attempt = gen[t].attempt + 1
          /\ current_account_index' # current_account_index]_vars

\* ------------------------------------------------ C21
\* C21: when the generation POST succeeds but no operation name can be taken
\* from the body or from any header, generate_video still returns a
\* synthesized pending-operation record and the job goes on to polling
\* instead of being marked FAILED.
C21_SynthesizedRecordWhenNoName ==
    /\ [][\A t \in Tasks, r \in PostResponses :
              /\ r.body.name = ""
              /\ _extract_operation_from_headers(r.headers) = ""
              /\ _run_generation_post(t, r)
              => gen'[t].response.present]_vars
    /\ [][\A t \in Tasks :
              /\ gen[t].pc \in {"named", "header", "empty"}
              /\ gen[t].response.name = ""
              /\ _run_generation_return(t)
              => worker'[t].pc = "poll_check"]_vars

\* ------------------------------------------------ C22
\* C22: the operation name of a generation response is found in one fixed
\* order: operations[0].operation.name of the body wins over every header;
\* with an empty body an explicit operation-name header wins over the name=
\* field of the request-params header, which wins over the last path segment
\* of the Location header.
C22_ExtractionOrder ==
    [][\A c \in Callers : gen[c].pc = "post" /\ gen'[c].pc \notin {"post", "raised"} =>
        \A r \in PostResponses :
          generate_video_post(c, r) =>
          LET found == _extract_operation_name(gen'[c].response)
              h == r.headers
              explicit == {i \in 1 .. 3 : h.explicit[i] # ""}
              has_params == h.params # <<>> /\ h.params # <<"">>
          IN  /\ r.body.name # "" => found = r.body.name
              /\ ~r.body.present /\ explicit # {} =>
                     found = h.explicit[CHOOSE i \in explicit : \A j \in explicit : i <= j]
              /\ ~r.body.present /\ explicit = {} /\ has_params =>
                     found = h.params[Len(h.params)]
              /\ ~r.body.present /\ explicit = {} /\ ~has_params /\ Len(h.location) >= 2 =>
                     found = h.location[Len(h.location)]]_vars

\* generate_video has returned the entry synthesized from the name= field of
\* the request-params header (the body was empty, no explicit header was set)
C22_Witness ==
    \E c \in Callers :
        /\ gen[c].pc = "header"
        /\ gen[c].response.name = "P"

\* ------------------------------------------------ C23
\* a step of check_video_status, called by the poll loop of a worker or by
\* the sync-status route: its _get_credentials, or the return or the
\* exception of its status POST
StatusCheckStep ==
    \/ \E t \in Tasks : worker[t].pc \in {"poll_check", "poll_wait"} /\ worker'[t] # worker[t]
    \/ sync' # sync

\* C23: check_video_status never changes current_account_index and never
\* records a failure for an account, whether the status call succeeds or
\* fails.
C23_StatusCheckLeavesPool ==
    [][StatusCheckStep =>
          /\ current_account_index' = current_account_index
          /\ \A a \in Accounts :
                 /\ account_health'[a].failures <= account_health[a].failures
                 /\ account_health'[a].last_failure = account_health[a].last_failure
                 /\ account_health'[a].reported <= account_health[a].reported
                 /\ account_health[a].is_healthy => account_health'[a].is_healthy
                 /\ account_health'[a].cooldown_until \in
                        {account_health[a].cooldown_until, NoTime}]_vars

\* the status POST of a job's first check has raised and the poll loop has
\* gone on to its next attempt, with no failure recorded and the account
\* that was used still current
C23_Witness ==
    \E t \in Tasks :
        /\ worker[t].pc = "poll_sleep"
        /\ worker[t].checks = 1
        /\ worker[t].updates = 0
        /\ worker[t].check_acct = current_account_index
        /\ \A a \in Accounts : account_health[a].failures = 0

\* ------------------------------------------------ C24
\* C24: enqueue(video_id, scene_id) is called for a Video only after the
\* transaction that inserted its row has been committed.
C24_EnqueueAfterCommit ==
    \A v \in Videos :
        v \in Range(log.put) \cup log.waited => videos[v].row = "committed"

\* ------------------------------------------------ C25
\* C25: when stop is requested while a job is inside its polling loop, the
\* poll iteration in progress (the status check and the application of its
\* update) runs to completion before the worker exits.
C25_StopLetsIterationFinish ==
    [][\A t \in Tasks :
          worker[t].pc = "poll_wait" /\ stop => worker'[t].pc = "poll_wait"]_vars

\* the generation client and the account refresher see the same jars and
\* the same health records
SamePoolState ==
    /\ cookies_data = refresher.cookies_data
    /\ account_health = refresher.account_health

\* a write of the cookie file changes the jar of one account and keeps the
\* jars of the others as the file had them
FileWriteKeepsOtherJars ==
    \A a, b \in Accounts :
        (a # b /\ cookie_file'[a] # cookie_file[a]) => cookie_file'[b] = cookie_file[b]

\* C26: the generation client and the account refresher work on one account
\* pool state, so a jar or health change made by one is what the other
\* finds, and a write of the cookie file by one never drops a jar the other
\* has written.
C26_SinglePoolState == [](SamePoolState) /\ [][FileWriteKeepsOtherJars]_vars

\* the current account has a stored jar that holds no bearer token and has
\* not expired, or one that holds a bearer token that has expired
\* (update_cookies stores the token's expiry as the expiry of the jar)
StoredTokenUnusable(cd, a, t) ==
    /\ cd[a].present
    /\ IF cd[a].authorization THEN t >= cd[a].expires_at
       ELSE ~_are_cookies_expired(cd[a], t)

\* C27: when the jar of the current account is present and its bearer token
\* is absent or expired, resolving the credentials mints a new token from
\* the session endpoint and writes it back to the jar; neither the old token
\* nor the legacy credential source is used.
C27_UnusableTokenIsMinted ==
    [][\A l \in LegacyOutcomes, ss \in SessionOutcomes(now) :
          (/\ gen[FirstRequest].pc = "creds"
           /\ StoredTokenUnusable(cookies_data, current_account_index, now)
           /\ ss.kind = "token"
           /\ route_generate_creds(FirstRequest, l, ss))
          => /\ cookies_data'[current_account_index].authorization
             /\ cookies_data'[current_account_index].expires_at = ss.expires
             /\ gen'[FirstRequest].pc = "post"]_vars

\* C28: when the session endpoint reports the session of the stored cookies
\* as expired, that iteration of the token refresh loop runs the full cookie
\* refresh before it waits, and when the refresh succeeds the wait it begins
\* is 10 seconds.
C28_SessionExpiredRefreshesAtOnce ==
    [][\A answer \in SessionAnswers, result \in RefreshOutcomes :
          (/\ token_loop.pc = "run"
           /\ answer.kind = "expired"
           /\ refresh_loop_iteration(answer, result))
          => /\ token_loop'.refreshed
             /\ result.kind # "failed" => token_loop'.delay = 10]_vars

\* C29: after a scheduled full cookie refresh has failed, the cookie refresh
\* loop does not begin another wait of the full period before it has made
\* a new refresh attempt (the attempt follows the back-off wait).
C29_RetryAfterBackoff ==
    ~(cookie_loop.pc = "wait_long" /\ cookie_loop.failed_scheduled)

\* the long wait began with the stored expiry outside the early-refresh
\* margin, and the expiry is inside the margin now
EarlyRefreshBecameDue ==
    /\ cookie_loop.pc = "wait_long"
    /\ ~should_refresh_cookies_early(flow_cookie_expiry,
                                     cookie_loop.deadline - CookieRefreshIntervalHours)
    /\ should_refresh_cookies_early(flow_cookie_expiry, hour)

\* C30: when the stored expiry comes within the early-refresh margin while
\* the cookie refresh loop is in its long wait, the loop leaves the wait for
\* an out-of-cycle refresh before another hour has passed.
C30_EarlyCheckDuringLongWait ==
    [][(EarlyRefreshBecameDue /\ hour' = hour + 1) => cookie_loop'.pc # "wait_long"]_vars

\* C31: an iteration of the token refresh loop in which the session is
\* reported expired and the cookie refresh it triggers fails is the n-th
\* such failure in a row: the counter becomes n and the wait that follows is
\* min(60 * 2^n, 3600) seconds, which is at least the wait of the failure
\* before it and at most 3600; a successful cookie refresh or token refresh
\* sets the counter to 0.
C31_ExponentialBackoff ==
    [][\A answer \in SessionAnswers, result \in RefreshOutcomes :
          (/\ token_loop.pc = "run"
           /\ refresh_loop_iteration(answer, result))
          => LET n == token_loop.consecutive_cookie_failures + 1 IN
             /\ (answer.kind = "expired" /\ result.kind = "failed")
                  => /\ token_loop'.consecutive_cookie_failures = n
                     /\ token_loop'.delay = Min(60 * (2 ^ n), 3600)
                     /\ token_loop'.delay <= 3600
                     /\ n > 1 => token_loop'.delay >= token_loop.delay
             /\ (answer.kind = "token" \/ (answer.kind = "expired" /\ result.kind # "failed"))
                  => token_loop'.consecutive_cookie_failures = 0]_vars

\* the accounts in round-robin order after idx, the last one being idx
RoundRobin(idx) == [k \in 1 .. NumAccounts |-> (idx + k) % NumAccounts]

\* the first account after idx, in round-robin order, that is not in a
\* cooldown that is still in the future
FirstNotCoolingDown(idx) ==
    LET order == RoundRobin(idx)
        free == {k \in 1 .. NumAccounts : ~CoolingDown(order[k])}
    IN  order[CHOOSE k \in free : \A j \in free : k <= j]

\* C32: when rotate() returns true, the new current account is healthy and
\* has no cooldown, it is the first account after the old index in
\* round-robin order that is not in an unexpired cooldown, it has been reset
\* (failures 0) if it had a cooldown that has elapsed, and it was not in a
\* cooldown still in the future.
C32_RotationSelectsFirstFree ==
    [][(CallRotate /\ call'.ret) =>
          LET new == current_account_index' IN
          /\ account_health'[new].is_healthy
          /\ account_health'[new].cooldown_until = NoTime
          /\ ~CoolingDown(new)
          /\ new = FirstNotCoolingDown(current_account_index)
          /\ account_health[new].cooldown_until # NoTime
                => account_health'[new].failures = 0]_vars

\* rotate() has just returned true on an account it reset, after passing
\* over an account that is still cooling down
C32_Witness ==
    /\ call.op = "rotate_to_next_account"
    /\ call.ret
    /\ account_health[current_account_index].forgiven > 0
    /\ account_health[current_account_index].failures = 0
    /\ \E a \in Accounts : CoolingDown(a)

Waiting(v) == v \in Range(queue) \/ v \in putters

\* C34: with stop() never called and every call returning, the worker task
\* that was started stays alive whatever exception a job ends with; every
\* job that is waiting while the worker runs is eventually taken from the
\* queue and processed to its end; and no job is received twice or put back
\* in the queue once the worker has received it.
C34_FailedJobDoesNotStopWorker ==
    /\ [](worker_task # NoTask => worker[worker_task].pc # "dead")
    /\ [](NoDuplicates(log.got) /\ \A v \in Range(log.got) : ~Waiting(v))
    /\ \A v \in Videos : (Waiting(v) /\ worker_task # NoTask) ~> (outcome[v] # "none")

\* a job has failed and a job received after it has been processed
C34_Witness ==
    /\ Len(log.got) >= 2
    /\ outcome[log.got[1]] = "failed"
    /\ outcome[log.got[2]] \in {"returned", "failed"}
    /\ videos[log.got[1]].status = FAILED

\* the row of a Video as the routing layer created it: no field written by
\* the worker
UntouchedRow(v) ==
    /\ videos[v].status = PENDING
    /\ videos[v].failure_reason = NoReason
    /\ ~videos[v].operation_name

\* C35: a job whose Video row is not visible in any of the 5 load attempts
\* is dropped at the fifth miss and not before: that step writes no Video
\* field and starts no generate_video call, the job is out of the queue and
\* the worker is back at the queue for the next job; the row of a dropped
\* job never carries anything the worker writes.
C35_InvisibleRowDropsJob ==
    /\ [][\A t \in Tasks :
            (worker[t].pc = "load" /\ _load_video_miss(t)) =>
               IF worker[t].loads = LoadAttempts - 1
               THEN /\ worker'[t].pc = "get"
                    /\ outcome'[worker[t].job] = "dropped"
                    /\ videos' = videos
                    /\ gen' = gen
                    /\ ~Waiting(worker[t].job)'
               ELSE /\ worker'[t].pc = "load"
                    /\ outcome'[worker[t].job] = "none"]_vars
    /\ [](\A v \in Videos : outcome[v] = "dropped" => UntouchedRow(v))

\* a job has been dropped and the job received after it has been processed
C35_Witness ==
    /\ Len(log.got) >= 2
    /\ outcome[log.got[1]] = "dropped"
    /\ outcome[log.got[2]] = "returned"
    /\ videos[log.got[1]].row = "committed"

\* C36: once stop() has returned (the stop event is set and the worker task
\* is gone), no Video is left in PROCESSING: the job that was in flight has
\* a terminal status.
C36_StopLeavesNoProcessing ==
    (stop_event /\ worker_task = NoTask)
        => \A v \in Videos : videos[v].status # PROCESSING

\* C37: in every state of the account pool, for every account, is_healthy
\* is false exactly when failures >= 3 and exactly when cooldown_until is
\* set.
C37_HealthFieldsAgree ==
    \A a \in Accounts :
        LET hrec == account_health[a] IN
        /\ ~hrec.is_healthy <=> hrec.failures >= FailureThreshold
        /\ ~hrec.is_healthy <=> hrec.cooldown_until # NoTime

\* one account is unhealthy and cooling down after more failures than the
\* threshold, while the other has been reset by a rotation and has failed
\* again since
C37_Witness ==
    \E a, b \in Accounts :
        /\ ~account_health[a].is_healthy
        /\ account_health[a].failures > FailureThreshold
        /\ account_health[b].forgiven > 0
        /\ account_health[b].is_healthy
        /\ account_health[b].failures > 0

\* C38: every check_video_status the worker issues for a job goes out on
\* the account on which the generate_video call of that job succeeded,
\* whatever other callers of the FlowClient do in between.
C38_StatusCheckOnGeneratingAccount ==
    \A t \in Tasks :
        worker[t].pc = "poll_wait" => worker[t].check_acct = gen[t].acct

\* C39: when the worker's poll loop ends the processing of a job with the
\* Video COMPLETED, the row it has committed carries no failure reason.
C39_CompletedHasNoReason ==
    [][\A t \in Tasks :
          (/\ worker[t].pc = "poll_wait"
           /\ worker'[t].pc = "get"
           /\ videos'[worker[t].job].status = COMPLETED)
          => videos'[worker[t].job].failure_reason = NoReason]_vars

\* the cooldown of account a has passed: it is still recorded but lies in
\* the past (no rotation has visited the account since), or a rotation has
\* reset the account and it has not failed since
CooldownPassed(a) ==
    \/ account_health[a].cooldown_until # NoTime /\ now >= account_health[a].cooldown_until
    \/ account_health[a].forgiven > 0 /\ account_health[a].failures = 0

\* C40: one failure reported for an account whose cooldown has passed does
\* not put the account back into cooldown, whether or not a rotation has
\* visited the account since the cooldown ended.
C40_OneFailureAfterCooldown ==
    [][\A email \in Accounts \cup {NoEmail} :
          (CooldownPassed(FailureTarget(email)) /\ CallMarkAccountFailure(email))
          => ~(/\ account_health'[FailureTarget(email)].cooldown_until # NoTime
               /\ now < account_health'[FailureTarget(email)].cooldown_until)]_vars

====
